---- MODULE Spec2Model ----
(***************************************************************************)
(* Limit order book of lobsim: Orderbook (lobsim/orderbook.py), Queue      *)
(* (src/queue.py) and Order (lobsim/orders.py).                            *)
(*                                                                         *)
(* Objects live in two heaps: `orders` (Order objects) and `qs` (Queue     *)
(* objects).  A reference is the index of the object in its heap, None is  *)
(* the null reference.  Order ids are unique, so the id of an order is its *)
(* index.  Prices are whole numbers of 10^-price_precision, quantities are *)
(* whole numbers of step_size.                                             *)
(*                                                                         *)
(* A method of the source is an operator from a book record to a book      *)
(* record.  Statements are applied in source order; a statement that       *)
(* raises sets `err` and every later statement is skipped, so the record   *)
(* keeps the mutations made before the raise, as the Python objects do.    *)
(***************************************************************************)
EXTENDS Integers, Sequences, FiniteSets, TLC

\* ---------------------------------------------------------------- bounds
MaxCalls == 4           \* calls of a run
MaxLevels == 3          \* price levels a caller may name
MaxQty == 2             \* largest quantity a caller may name
NumClients == 1         \* client ids

\* ------------------------------------------------------ program constants
TickSize == 10          \* tick_size = 0.001 at price_precision = 4
MinPrice == 1000        \* min_price = 0.1 at price_precision = 4
MaxPrice == 100000000   \* max_price = 10000 at price_precision = 4
MinQty == 1             \* min_qty
MaxLotQty == 100        \* max_qty
StepSize == 1           \* step_size
Inf == 1000000000       \* float("inf"), the min_bid sentinel
BID == 1
ASK == -1

None == 0               \* null reference
NoMid == -1             \* the value None of _prev_mid / _curr_mid
HalfTick == TickSize \div 2

Sides == {BID, ASK}
Prices == {MinPrice + k * TickSize : k \in 0..(MaxLevels - 1)}
Quantities == 1..MaxQty
Clients == 1..NumClients
ServerClients == 1..(NumClients + 1)

\* A client whose _on_trading_init has not run.
NotSubscribed == [at |-> "none", waiter |-> None, message |-> None]

\* --------------------------------------------------------------- state
VARIABLES
    orders,         \* heap of Order objects, a sequence of records
    qs,             \* heap of Queue objects, a sequence of records
    queues,         \* Orderbook.queues: price -> Queue reference (None: no key)
    order_map,      \* Orderbook.order_map: the set of its keys (order ids)
    best_queue,     \* Orderbook.best_queue: side -> Queue reference
    best_volumes,   \* Orderbook.best_volumes: side -> number
    min_bid,        \* Orderbook.min_bid
    max_ask,        \* Orderbook.max_ask
    prev_mid,       \* Orderbook._prev_mid
    curr_mid,       \* Orderbook._curr_mid
    events,         \* what the last call emitted: notifications and fills
    err,            \* how the last call ended
    ncalls,         \* calls made so far
    call,           \* the last call: the method and its arguments
    pre,            \* the book the last call was made on
    futures,        \* heap of the asyncio futures of the _PubSub channels
    private_chanel, \* WebsocketServer._private_chanel: key -> _PubSub.waiter
    subscription,   \* client -> where its _on_trading_init stands
    sent,           \* client -> what websocket.send has sent it, in order
    published       \* client -> what was published to it since it iterates

vars == <<orders, qs, queues, order_map, best_queue, best_volumes, min_bid,
          max_ask, prev_mid, curr_mid, events, err, ncalls, call, pre,
          futures, private_chanel, subscription, sent, published>>

\* The book as one record, the value the method operators transform.
Book ==
    [orders |-> orders, qs |-> qs, queues |-> queues, order_map |-> order_map,
     best_queue |-> best_queue, best_volumes |-> best_volumes,
     min_bid |-> min_bid, max_ask |-> max_ask, prev_mid |-> prev_mid,
     curr_mid |-> curr_mid, events |-> <<>>, err |-> "ok"]

\* Orderbook.__init__
NewBook ==
    [orders |-> <<>>, qs |-> <<>>, queues |-> <<>>, order_map |-> {},
     best_queue |-> [s \in Sides |-> None],
     best_volumes |-> [s \in Sides |-> 0],
     min_bid |-> Inf, max_ask |-> 0, prev_mid |-> NoMid, curr_mid |-> NoMid,
     events |-> <<>>, err |-> "ok"]

Raise(S, kind) == [S EXCEPT !.err = kind]

\* The next statement of a method: it runs on the book the statements before
\* it left, and is skipped while an exception propagates.
Then(S, statement(_)) == IF S.err # "ok" THEN S ELSE statement(S)

\* A local variable of a method.
Let(value, body(_)) == body(value)

\* ------------------------------------------------------------ Instrument
\* round(price, price_precision): the argument is a whole number of
\* 10^-price_precision or ends in one half of it (the mean of two prices);
\* Python rounds the half to the even neighbour.  Arguments are doubled so
\* that the half is an integer.
adjust_price(twice) ==
    IF twice % 2 = 0 THEN twice \div 2
    ELSE IF ((twice - 1) \div 2) % 2 = 0 THEN (twice - 1) \div 2
    ELSE (twice + 1) \div 2

\* round(quantity, quantity_precision) of a whole number of step_size = 1.
adjust_quantity(quantity) == quantity

\* is_divisible(x, y): Decimal(str(x)) % Decimal(str(y)) == 0.  The remainder
\* of Decimal takes the sign of x, and is zero exactly when y divides x.
is_divisible(x, y) ==
    /\ y # 0
    /\ (IF x >= 0 THEN x % y ELSE (-x) % y) = 0

\* Instrument.is_valid_quantity, Instrument.is_valid_price
is_valid_quantity(quantity) ==
    /\ ~(quantity > MaxLotQty)
    /\ ~(quantity < MinQty)
    /\ is_divisible(quantity, StepSize)

is_valid_price(price) ==
    /\ ~(price < MinPrice)
    /\ ~(price > MaxPrice)
    /\ is_divisible(price, TickSize)

\* -------------------------------------------------------------- Order
NewOrder(owner, side, quantity, price) ==
    [owner |-> owner, side |-> side, quantity |-> quantity, price |-> price,
     oprev |-> None, onext |-> None, queue |-> None,
     remaining |-> quantity, last_filled_quantity |-> 0]

filled(O) == O.remaining = 0

\* What is left in the heap of an order no reference reaches.
DeadOrder == NewOrder(0, 0, 0, 0)

\* Order.add_fill: last_filled_quantity and remaining.
add_fill(S, o, quantity) ==
    [S EXCEPT !.orders[o].last_filled_quantity = quantity,
              !.orders[o].remaining = @ - quantity]

\* Order.update(price=..., quantity=...), as on_amend calls it.
update(S, o, price, quantity) ==
    [S EXCEPT !.orders[o].price = price,
              !.orders[o].quantity = quantity,
              !.orders[o].remaining = quantity]

\* -------------------------------------------------------------- events
\* send_private(client_id, message).  toOrder is TRUE when the client_id
\* argument is an order id, not a client id.
Notification(to, toOrder, status, oid) ==
    [kind |-> "notify", to |-> to, toOrder |-> toOrder, status |-> status,
     oid |-> oid]

Emit(S, e) == [S EXCEPT !.events = Append(@, e)]

\* Queue._notify(status, order): to order.owner.
_notify(S, status, o) ==
    Emit(S, Notification(S.orders[o].owner, FALSE, status, o))

\* -------------------------------------------------------------- Queue
NewQueue(limit, side) ==
    [limit |-> limit, side |-> side, qprev |-> None, qnext |-> None,
     ohead |-> None, otail |-> None, volume |-> 0, nb_orders |-> 0,
     arrived |-> <<>>]

\* A slot of the queue heap that holds no object.
FreeQueue == NewQueue(0, 0)
IsFree(Q) == Q.limit = 0

\* Queue._rv: round(quantity, volume_precision) of a whole number.
_rv(quantity) == quantity

\* Queue.empty
empty(Q) == Q.volume = 0

\* Queue.add with the order linked before the head, not after the tail.
add_at_head(S, q, o) ==
    IF S.err # "ok" THEN S
    ELSE IF q = None THEN Raise(S, "AttributeError")
    ELSE
    Then(IF S.qs[q].ohead = None
         THEN [S EXCEPT !.qs[q].ohead = o, !.qs[q].otail = o]
         ELSE [S EXCEPT !.orders[o].onext = S.qs[q].ohead,
                        !.orders[o].oprev = None,
                        !.orders[S.qs[q].ohead].oprev = o,
                        !.qs[q].ohead = o],
         LAMBDA linked :
    _notify([linked EXCEPT
               !.qs[q].volume = _rv(@ + linked.orders[o].quantity),
               !.qs[q].nb_orders = @ + 1,
               !.qs[q].arrived = Append(@, o),
               !.orders[o].queue = q],
            "New order", o))

\* Queue.add(order).  `arrived` is the history of the queue: the orders
\* added and not removed since, in the order of their add calls.
add(S, q, o) ==
    IF S.err # "ok" THEN S
    ELSE IF q = None THEN Raise(S, "AttributeError")
    ELSE
    Then(IF S.qs[q].ohead = None
         THEN [S EXCEPT !.qs[q].ohead = o, !.qs[q].otail = o]
         ELSE IF S.qs[q].otail = None
         THEN Raise([S EXCEPT !.orders[o].oprev = None,
                              !.orders[o].onext = None],
                    "AttributeError")
         ELSE [S EXCEPT !.orders[o].oprev = S.qs[q].otail,
                        !.orders[o].onext = None,
                        !.orders[S.qs[q].otail].onext = o,
                        !.qs[q].otail = o],
         LAMBDA linked :
    _notify([linked EXCEPT
               !.qs[q].volume = _rv(@ + linked.orders[o].quantity),
               !.qs[q].nb_orders = @ + 1,
               !.qs[q].arrived = Append(@, o),
               !.orders[o].queue = q],
            "New order", o))

Without(seq, o) == SelectSeq(seq, LAMBDA x : x # o)

\* Queue.remove(order).  Order.__eq__ reads other.order_id, so a comparison
\* with a null ohead or otail raises.
remove(S, q, o) ==
    IF S.err # "ok" THEN S
    ELSE IF q = None THEN Raise(S, "AttributeError")
    ELSE
    Then([S EXCEPT
            !.qs[q].nb_orders = @ - 1,
            !.qs[q].volume =
                IF filled(S.orders[o])
                THEN _rv(@ - S.orders[o].last_filled_quantity)
                ELSE _rv(@ - S.orders[o].remaining),
            !.qs[q].arrived = Without(@, o)],
         LAMBDA s1 :
    IF s1.qs[q].ohead = None THEN Raise(s1, "AttributeError")
    ELSE IF o = s1.qs[q].ohead /\ s1.qs[q].otail = None
    THEN Raise(s1, "AttributeError")
    ELSE IF o = s1.qs[q].ohead /\ o = s1.qs[q].otail
    THEN [s1 EXCEPT !.qs[q].ohead = None, !.qs[q].otail = None]
    ELSE IF s1.qs[q].otail = None THEN Raise(s1, "AttributeError")
    ELSE IF o = s1.qs[q].otail
    THEN Then([s1 EXCEPT !.qs[q].otail = s1.orders[o].oprev],
              LAMBDA s2 :
         IF s2.orders[o].oprev = None THEN Raise(s2, "AttributeError")
         ELSE [s2 EXCEPT !.orders[s2.orders[o].oprev].onext = None])
    ELSE IF o = s1.qs[q].ohead
    THEN Then([s1 EXCEPT !.qs[q].ohead = s1.orders[o].onext],
              LAMBDA s2 :
         IF s2.orders[o].onext = None THEN Raise(s2, "AttributeError")
         ELSE [s2 EXCEPT !.orders[s2.orders[o].onext].oprev = None])
    ELSE IF s1.orders[o].onext = None THEN Raise(s1, "AttributeError")
    ELSE Then([s1 EXCEPT !.orders[s1.orders[o].onext].oprev =
                             s1.orders[o].oprev],
              LAMBDA s2 :
         IF s2.orders[o].oprev = None THEN Raise(s2, "AttributeError")
         ELSE [s2 EXCEPT !.orders[s2.orders[o].oprev].onext =
                             s2.orders[o].onext]))

Range(seq) == {seq[i] : i \in 1..Len(seq)}

\* The orders that rest in the book: added to a queue, not removed from it
\* since, and not filled.
Resting(S) ==
    {o \in 1..Len(S.orders) :
        /\ S.orders[o].queue # None
        /\ o \in Range(S.qs[S.orders[o].queue].arrived)
        /\ S.orders[o].remaining > 0}

\* The orders that rest in the queue where order o rests and were added to
\* it before o.
Ahead(S, o) ==
    IF o \notin Resting(S) THEN {}
    ELSE
    LET arrived == S.qs[S.orders[o].queue].arrived
    IN {arrived[i] : i \in {j \in 1..Len(arrived) :
            /\ arrived[j] \in Resting(S)
            /\ \A k \in 1..j : arrived[k] # o}}

\* The orders that rest in the queue where order o rests and were added to
\* it after o.
Behind(S, o) ==
    IF o \notin Resting(S) THEN {}
    ELSE (Range(S.qs[S.orders[o].queue].arrived) \cap Resting(S))
             \ (Ahead(S, o) \cup {o})

\* The history of one round of a walk, taken before its fill: the method
\* that walks, the side it was called with, its price bound (None when it has
\* none) and the quantity it still wants; the best queue of the side walked,
\* the queue q of the round, its limit and its head; the order about to be
\* filled, its side and the quantity of the fill; the orders ahead of that
\* order and behind it, and the resting orders of the side walked at a better price than
\* the limit of q.
Match(S, by, side, price, want, walked, q, o, quantity) ==
    Emit(S, [kind |-> "fill", by |-> by, taker |-> side, bound |-> price,
             want |-> want, walked |-> walked,
             best |-> S.best_queue[walked],
             q |-> q, limit |-> S.qs[q].limit, head |-> S.qs[q].ohead,
             oid |-> o, side |-> S.orders[o].side, quantity |-> quantity,
             ahead |-> Ahead(S, o), behind |-> Behind(S, o),
             better |-> {r \in Resting(S) :
                          /\ S.orders[r].side = walked
                          /\ walked * S.orders[r].price
                             > walked * S.qs[q].limit}])

\* Queue.fill(order, quantity)
fill(S, q, o, quantity) ==
    IF S.err # "ok" THEN S
    ELSE
    Then(add_fill(S, o, quantity), LAMBDA s1 :
    Then(Emit(s1, Notification(o, TRUE, "New Fill", o)), LAMBDA s2 :
    IF filled(s2.orders[o]) THEN _notify(s2, "Filled", o)
    ELSE [_notify(s2, "Partial fill", o) EXCEPT
            !.qs[q].volume = _rv(@ - quantity)]))

\* ------------------------------------------------------------ Orderbook
HasKey(S, price) == price \in DOMAIN S.queues

SetKey(S, price, q) ==
    [S EXCEPT !.queues = [p \in (DOMAIN @) \cup {price} |->
                            IF p = price THEN q ELSE @[p]]]

DelKey(S, price) ==
    [S EXCEPT !.queues = [p \in (DOMAIN @) \ {price} |-> @[p]]]

\* _update_mid with the half tick taken on the other side of the midpoint.
_update_mid_away(S) ==
    IF S.err # "ok" THEN S
    ELSE IF S.best_queue[ASK] = None /\ S.best_queue[BID] = None
    THEN [S EXCEPT !.prev_mid = NoMid, !.curr_mid = NoMid]
    ELSE IF S.best_queue[ASK] = None
    THEN [S EXCEPT !.curr_mid =
              adjust_price(2 * S.qs[S.best_queue[BID]].limit + TickSize)]
    ELSE IF S.best_queue[BID] = None
    THEN [S EXCEPT !.curr_mid =
              adjust_price(2 * S.qs[S.best_queue[ASK]].limit - TickSize)]
    ELSE
    Then([S EXCEPT
            !.prev_mid = S.curr_mid,
            !.curr_mid = adjust_price(S.qs[S.best_queue[ASK]].limit
                                      + S.qs[S.best_queue[BID]].limit)],
         LAMBDA s1 :
    IF is_divisible(s1.curr_mid, TickSize)
    THEN IF s1.prev_mid = NoMid THEN Raise(s1, "TypeError")
         ELSE IF s1.curr_mid < s1.prev_mid
         THEN [s1 EXCEPT !.curr_mid = adjust_price(2 * (@ - HalfTick))]
         ELSE [s1 EXCEPT !.curr_mid = adjust_price(2 * (@ + HalfTick))]
    ELSE [s1 EXCEPT !.curr_mid = adjust_price(2 * @)])

\* Orderbook._update_mid
_update_mid(S) ==
    IF S.err # "ok" THEN S
    ELSE IF S.best_queue[ASK] = None /\ S.best_queue[BID] = None
    THEN [S EXCEPT !.prev_mid = NoMid, !.curr_mid = NoMid]
    ELSE IF S.best_queue[ASK] = None
    THEN [S EXCEPT !.curr_mid =
              adjust_price(2 * S.qs[S.best_queue[BID]].limit + TickSize)]
    ELSE IF S.best_queue[BID] = None
    THEN [S EXCEPT !.curr_mid =
              adjust_price(2 * S.qs[S.best_queue[ASK]].limit - TickSize)]
    ELSE
    Then([S EXCEPT
            !.prev_mid = S.curr_mid,
            !.curr_mid = adjust_price(S.qs[S.best_queue[ASK]].limit
                                      + S.qs[S.best_queue[BID]].limit)],
         LAMBDA s1 :
    IF is_divisible(s1.curr_mid, TickSize)
    THEN IF s1.prev_mid = NoMid THEN Raise(s1, "TypeError")
         ELSE IF s1.curr_mid < s1.prev_mid
         THEN [s1 EXCEPT !.curr_mid = adjust_price(2 * (@ + HalfTick))]
         ELSE [s1 EXCEPT !.curr_mid = adjust_price(2 * (@ - HalfTick))]
    ELSE [s1 EXCEPT !.curr_mid = adjust_price(2 * @)])

\* Orderbook._find_prev_queue(limit, side): the first key of `queues` met
\* from limit in steps of tick_size * side.  The scan has no bound; when no
\* key lies in that direction it never returns, and the result is None.
RECURSIVE ScanPrev(_, _, _)
ScanPrev(S, current_limit, side) ==
    LET next == adjust_price(2 * (current_limit + TickSize * side))
    IN IF HasKey(S, next) THEN S.queues[next]
       ELSE IF \E p \in DOMAIN S.queues : side * p > side * next
       THEN ScanPrev(S, next, side)
       ELSE None

_find_prev_queue(S, limit, side) == ScanPrev(S, limit, side)

\* Queue(...): the new object takes the first slot of the heap that holds no
\* object.
NewQueueSlot(S) ==
    IF \E i \in 1..Len(S.qs) : IsFree(S.qs[i])
    THEN CHOOSE i \in 1..Len(S.qs) :
            /\ IsFree(S.qs[i])
            /\ \A j \in 1..(i - 1) : ~IsFree(S.qs[j])
    ELSE Len(S.qs) + 1

\* Orderbook._create_queue(side, price); the result is at NewQueueSlot(S).
_create_queue(S, side, price) ==
    IF S.err # "ok" THEN S
    ELSE
    Let(NewQueueSlot(S), LAMBDA new_queue :
    Then(IF side = BID
         THEN [S EXCEPT !.min_bid = IF price < @ THEN price ELSE @]
         ELSE [S EXCEPT !.max_ask = IF price > @ THEN price ELSE @],
         LAMBDA s1 :
    Then(IF new_queue <= Len(s1.qs)
         THEN [s1 EXCEPT !.qs[new_queue] = NewQueue(price, side)]
         ELSE [s1 EXCEPT !.qs = Append(@, NewQueue(price, side))],
         LAMBDA s2 :
    Then(IF s2.best_queue[side] = None
         THEN _update_mid([s2 EXCEPT !.best_queue[side] = new_queue])
         ELSE IF side * price > s2.qs[s2.best_queue[side]].limit * side
         THEN _update_mid(
                [s2 EXCEPT !.qs[new_queue].qprev = None,
                           !.qs[new_queue].qnext = s2.best_queue[side],
                           !.qs[s2.best_queue[side]].qprev = new_queue,
                           !.best_queue[side] = new_queue])
         ELSE
         Let(_find_prev_queue(s2, price, side), LAMBDA prev_queue :
         IF prev_queue = None THEN Raise(s2, "hang")
         ELSE
         Let(s2.qs[prev_queue].qnext, LAMBDA next_queue :
         Then([s2 EXCEPT !.qs[new_queue].qprev = prev_queue,
                         !.qs[new_queue].qnext = next_queue],
              LAMBDA s3 :
         Then(IF next_queue # None
              THEN [s3 EXCEPT !.qs[next_queue].qprev = new_queue]
              ELSE s3,
              LAMBDA s4 :
         [s4 EXCEPT !.qs[prev_queue].qnext = new_queue])))),
         LAMBDA placed :
    SetKey(placed, price, new_queue)))))

\* _delete_queue that leaves mid_price as it was when the best queue goes.
_delete_queue_stale_mid(S, side, queue) ==
    IF S.err # "ok" THEN S
    ELSE IF S.best_queue[side] = None THEN Raise(S, "AttributeError")
    ELSE
    Then(IF S.qs[queue].limit = S.qs[S.best_queue[side]].limit
         THEN Then([S EXCEPT !.best_queue[side] = S.qs[queue].qnext],
                   LAMBDA s1 :
              IF s1.qs[queue].qnext # None
              THEN [s1 EXCEPT !.qs[s1.qs[queue].qnext].qprev = None]
              ELSE s1)
         ELSE IF S.qs[queue].qprev = None THEN Raise(S, "AttributeError")
         ELSE Then([S EXCEPT !.qs[S.qs[queue].qprev].qnext =
                                 S.qs[queue].qnext],
                   LAMBDA s1 :
              IF s1.qs[queue].qnext # None
              THEN [s1 EXCEPT !.qs[s1.qs[queue].qnext].qprev =
                                  s1.qs[queue].qprev]
              ELSE s1),
         LAMBDA unlinked :
    Then(IF side = BID /\ unlinked.qs[queue].limit = unlinked.min_bid
         THEN IF unlinked.qs[queue].qprev = None
              THEN [unlinked EXCEPT !.min_bid = Inf]
              ELSE [unlinked EXCEPT !.min_bid =
                        unlinked.qs[unlinked.qs[queue].qprev].limit]
         ELSE unlinked,
         LAMBDA s3 :
    Then(IF side # BID /\ s3.qs[queue].limit = s3.max_ask
         THEN IF s3.qs[queue].qprev = None
              THEN [s3 EXCEPT !.max_ask = 0]
              ELSE [s3 EXCEPT !.max_ask = s3.qs[s3.qs[queue].qprev].limit]
         ELSE s3,
         LAMBDA s4 :
    IF HasKey(s4, s4.qs[queue].limit) THEN DelKey(s4, s4.qs[queue].limit)
    ELSE Raise(s4, "KeyError"))))

\* Orderbook._delete_queue(side, queue).  Queue.__eq__ compares the limits
\* and reads other.limit, so the test against a null best queue raises.
_delete_queue(S, side, queue) ==
    IF S.err # "ok" THEN S
    ELSE IF S.best_queue[side] = None THEN Raise(S, "AttributeError")
    ELSE
    Then(IF S.qs[queue].limit = S.qs[S.best_queue[side]].limit
         THEN Then([S EXCEPT !.best_queue[side] = S.qs[queue].qnext],
                   LAMBDA s1 :
              Then(IF s1.qs[queue].qnext # None
                   THEN [s1 EXCEPT !.qs[s1.qs[queue].qnext].qprev = None]
                   ELSE s1,
                   LAMBDA s2 :
              _update_mid(s2)))
         ELSE IF S.qs[queue].qprev = None THEN Raise(S, "AttributeError")
         ELSE Then([S EXCEPT !.qs[S.qs[queue].qprev].qnext =
                                 S.qs[queue].qnext],
                   LAMBDA s1 :
              IF s1.qs[queue].qnext # None
              THEN [s1 EXCEPT !.qs[s1.qs[queue].qnext].qprev =
                                  s1.qs[queue].qprev]
              ELSE s1),
         LAMBDA unlinked :
    Then(IF side = BID /\ unlinked.qs[queue].limit = unlinked.min_bid
         THEN IF unlinked.qs[queue].qprev = None
              THEN [unlinked EXCEPT !.min_bid = Inf]
              ELSE [unlinked EXCEPT !.min_bid =
                        unlinked.qs[unlinked.qs[queue].qprev].limit]
         ELSE unlinked,
         LAMBDA s3 :
    Then(IF side # BID /\ s3.qs[queue].limit = s3.max_ask
         THEN IF s3.qs[queue].qprev = None
              THEN [s3 EXCEPT !.max_ask = 0]
              ELSE [s3 EXCEPT !.max_ask = s3.qs[s3.qs[queue].qprev].limit]
         ELSE s3,
         LAMBDA s4 :
    IF HasKey(s4, s4.qs[queue].limit) THEN DelKey(s4, s4.qs[queue].limit)
    ELSE Raise(s4, "KeyError"))))

\* Orderbook._reject_market
_reject_market(S, client_id) ==
    IF S.err # "ok" THEN S
    ELSE Emit(S, Notification(client_id, FALSE, "rejected", None))

\* Order(...): a new object at the end of the heap, its id is its index.
Construct(S, owner, side, quantity, price) ==
    [S EXCEPT !.orders = Append(@, NewOrder(owner, side, quantity, price))]

\* Orderbook._insert_order(order)
_insert_order(S, o) ==
    IF S.err # "ok" THEN S
    ELSE
    Then([S EXCEPT !.order_map = @ \cup {o}], LAMBDA s1 :
    Let(IF HasKey(s1, s1.orders[o].price) THEN s1.queues[s1.orders[o].price]
        ELSE NewQueueSlot(s1),
        LAMBDA queue :
    Then(IF HasKey(s1, s1.orders[o].price) THEN s1
         ELSE _create_queue(s1, s1.orders[o].side, s1.orders[o].price),
         LAMBDA s2 :
    Then(add(s2, queue, o), LAMBDA s3 :
    [s3 EXCEPT !.best_volumes[s3.orders[o].side] =
                   adjust_quantity(@ + s3.orders[o].quantity)]))))

Min(a, b) == IF a < b THEN a ELSE b

\* A walk fills at least one unit or unlinks one order per round; WalkFuel
\* rounds are more than any walk of the bounded book takes.
WalkFuel == 2 * (MaxCalls + MaxQty) + 2

\* A walk that rejects the quantity it left in place of resting it.
RejectRest(S, side, quantity, price, client_id) ==
    IF quantity # 0 THEN _reject_market(S, client_id) ELSE S

\* Lines 262-274 of Orderbook.on_marketable: the quantity the walk left
\* becomes a resting order.
PlaceRest(S, side, quantity, price, client_id) ==
    IF quantity # 0
    THEN Let(Construct(S, client_id, side, quantity, price), LAMBDA s1 :
         _insert_order(s1, Len(s1.orders)))
    ELSE S

\* The while loop of Orderbook.on_marketable, lines 244-260, entered with
\* q = best_queue[-side], and what follows it when it ends.
RECURSIVE MarketableWalk(_, _, _, _, _, _, _)
MarketableWalk(S, side, quantity, price, client_id, q, fuel) ==
    IF S.err # "ok" THEN S
    ELSE IF ~(quantity # 0 /\ side * S.qs[q].limit <= side * price)
    THEN PlaceRest(S, side, quantity, price, client_id)
    ELSE IF fuel = 0 THEN Raise(S, "fuel")
    ELSE IF S.qs[q].ohead = None THEN Raise(S, "AttributeError")
    ELSE
    Let(S.qs[q].ohead, LAMBDA order :
    Let(Min(quantity, S.orders[S.qs[q].ohead].remaining), LAMBDA qty :
    Then(fill(Match(S, "on_marketable", side, price, quantity, -side,
                    q, order, qty),
              q, order, qty),
         LAMBDA s1 :
    Then([s1 EXCEPT !.best_volumes[s1.orders[order].side] =
                        adjust_quantity(@ - qty)],
         LAMBDA s2 :
    Then(IF filled(s2.orders[order])
         THEN Then(remove(s2, q, order), LAMBDA r :
              IF order \in r.order_map THEN r ELSE Raise(r, "KeyError"))
         ELSE s2,
         LAMBDA s3 :
    Then(IF empty(s3.qs[q]) THEN _delete_queue(s3, -side, q) ELSE s3,
         LAMBDA s4 :
    IF s4.best_queue[-side] = None
    THEN PlaceRest(s4, side, adjust_quantity(quantity - qty), price,
                   client_id)
    ELSE MarketableWalk(s4, side, adjust_quantity(quantity - qty), price,
                        client_id, s4.best_queue[-side], fuel - 1)))))))

\* Orderbook.on_marketable(side, quantity, price, client_id)
on_marketable(S, side, quantity, price, client_id) ==
    IF S.err # "ok" THEN S
    ELSE IF S.best_queue[-side] = None THEN _reject_market(S, client_id)
    ELSE MarketableWalk(S, side, quantity, price, client_id,
                        S.best_queue[-side], WalkFuel)

\* Orderbook.on_limit(side, quantity, price, client_id)
on_limit(S, side, quantity, price, client_id) ==
    IF S.best_queue[-side] # None
       /\ price * side >= S.qs[S.best_queue[-side]].limit * side
    THEN on_marketable(S, side, quantity, price, client_id)
    ELSE Let(Construct(S, client_id, side, quantity, price), LAMBDA s1 :
         _insert_order(s1, Len(s1.orders)))

\* The while loop of Orderbook.on_market, lines 302-326.
RECURSIVE MarketWalk(_, _, _, _, _)
MarketWalk(S, side, remaining, client_id, fuel) ==
    IF S.err # "ok" \/ remaining = 0 THEN S
    ELSE IF fuel = 0 THEN Raise(S, "fuel")
    ELSE IF S.best_queue[side] = None THEN _reject_market(S, client_id)
    ELSE IF S.qs[S.best_queue[side]].ohead = None
    THEN Raise(S, "AttributeError")
    ELSE
    Let(S.best_queue[side], LAMBDA q :
    Let(S.qs[q].ohead, LAMBDA order :
    Let(Min(remaining, S.orders[order].remaining), LAMBDA qty :
    Then(fill(Match(S, "on_market", side, None, remaining, side, q,
                    order, qty),
              q, order, qty),
         LAMBDA s1 :
    Then([s1 EXCEPT !.best_volumes[s1.orders[order].side] =
                        adjust_quantity(@ - qty)],
         LAMBDA s2 :
    Then(IF filled(s2.orders[order])
         THEN Then(remove(s2, q, order), LAMBDA r :
              IF order \in r.order_map
              THEN [r EXCEPT !.order_map = @ \ {order}]
              ELSE Raise(r, "KeyError"))
         ELSE s2,
         LAMBDA s3 :
    Then(IF empty(s3.qs[q]) THEN _delete_queue(s3, side, q) ELSE s3,
         LAMBDA s4 :
    MarketWalk(s4, side, adjust_quantity(remaining - qty), client_id,
               fuel - 1))))))))

\* A variant of on_market that fills what the side holds before it rejects.
on_market_filling(S, side, quantity, client_id) ==
    IF quantity > S.best_volumes[side]
    THEN IF S.best_volumes[side] > 0
         THEN _reject_market(
                MarketWalk(S, side, S.best_volumes[side], client_id,
                           WalkFuel),
                client_id)
         ELSE _reject_market(S, client_id)
    ELSE MarketWalk(S, side, quantity, client_id, WalkFuel)

\* Orderbook.on_market(side, quantity, client_id)
on_market(S, side, quantity, client_id) ==
    IF quantity > S.best_volumes[side] THEN _reject_market(S, client_id)
    ELSE MarketWalk(S, side, quantity, client_id, WalkFuel)

\* A variant of _get_order that also tells the unknown id to a client.
_get_order_notifying(S, order_id) ==
    IF order_id \in S.order_map THEN S
    ELSE Raise(Emit(S, Notification(None, FALSE, "rejected", order_id)),
               "OrderbookException")

\* Orderbook._get_order(order_id)
_get_order(S, order_id) ==
    IF order_id \in S.order_map THEN S
    ELSE Raise(S, "OrderbookException")

\* Orderbook.on_cancel(order_id)
on_cancel(S, order_id) ==
    Then(_get_order(S, order_id), LAMBDA s0 :
    Let(s0.orders[order_id], LAMBDA order :
    Then(remove(s0, order.queue, order_id), LAMBDA s1 :
    Then([s1 EXCEPT !.best_volumes[order.side] =
                        adjust_quantity(@ - s1.orders[order_id].quantity)],
         LAMBDA s2 :
    Then(IF empty(s2.qs[order.queue])
         THEN _delete_queue(s2, order.side, order.queue)
         ELSE s2,
         LAMBDA s3 :
    Emit([s3 EXCEPT !.order_map = @ \ {order_id}],
         Notification(order.owner, FALSE, "Cancelled", order_id)))))))

\* Orderbook.on_amend(order_id, quantity, price)
on_amend(S, order_id, quantity, price) ==
    Then(_get_order(S, order_id), LAMBDA s0 :
    Let(s0.orders[order_id], LAMBDA order :
    Let(order.side, LAMBDA side :
    Let(order.queue, LAMBDA queue :
    Then(remove(s0, queue, order_id), LAMBDA s1 :
    Then([s1 EXCEPT !.best_volumes[side] =
                        adjust_quantity(@ - s1.orders[order_id].quantity)],
         LAMBDA s2 :
    Then(IF empty(s2.qs[queue]) /\ s2.qs[queue].limit # price
         THEN IF HasKey(s2, s2.qs[queue].limit)
              THEN DelKey(s2, s2.qs[queue].limit)
              ELSE Raise(s2, "KeyError")
         ELSE s2,
         LAMBDA s3 :
    IF s3.curr_mid = NoMid THEN Raise(s3, "TypeError")
    ELSE IF side * price >= s3.curr_mid * side
    THEN on_marketable(s3, side, quantity, price, order.owner)
    ELSE
    Let(IF s3.qs[queue].limit # price
        THEN IF HasKey(s3, price) THEN s3.queues[price]
             ELSE NewQueueSlot(s3)
        ELSE queue,
        LAMBDA new_queue :
    Then(IF s3.qs[queue].limit # price /\ ~HasKey(s3, price)
         THEN _create_queue(s3, side, price)
         ELSE s3,
         LAMBDA s4 :
    Then(add(update(s4, order_id, price, quantity), new_queue, order_id),
         LAMBDA s5 :
    Emit([s5 EXCEPT !.best_volumes[side] = adjust_quantity(@ + quantity)],
         Notification(s5.orders[order_id].owner, FALSE, "Amended",
                      order_id))))))))))))

\* --------------------------------------------------------- specification
\* The objects the book can still reach once a call is over: from
\* order_map, queues and best_queue, through every reference of an object
\* reached.  Python reclaims the others.
RECURSIVE Reach(_, _, _)
Reach(S, O, Q) ==
    LET O2 == (O \cup {S.orders[o].oprev : o \in O}
                 \cup {S.orders[o].onext : o \in O}
                 \cup {S.qs[q].ohead : q \in Q}
                 \cup {S.qs[q].otail : q \in Q}) \ {None}
        Q2 == (Q \cup {S.qs[q].qprev : q \in Q}
                 \cup {S.qs[q].qnext : q \in Q}
                 \cup {S.orders[o].queue : o \in O}) \ {None}
    IN IF O2 = O /\ Q2 = Q THEN [O |-> O, Q |-> Q] ELSE Reach(S, O2, Q2)

Reachable(S) ==
    Reach(S, S.order_map,
          ({S.best_queue[s] : s \in Sides}
             \cup {S.queues[p] : p \in DOMAIN S.queues}) \ {None})

RECURSIVE Trim(_)
Trim(heap) ==
    IF heap # <<>> /\ IsFree(heap[Len(heap)])
    THEN Trim(SubSeq(heap, 1, Len(heap) - 1))
    ELSE heap

Collect(S) ==
    Let(Reachable(S), LAMBDA R :
    [S EXCEPT
       !.orders = [o \in 1..Len(@) |->
                     IF o \in R.O THEN @[o] ELSE DeadOrder],
       !.qs = Trim([q \in 1..Len(@) |->
                     IF q \in R.Q THEN @[q] ELSE FreeQueue])])

\* An exception other than the unknown order of _get_order is not caught by
\* any caller, and a scan that finds no queue never returns: the run of the
\* engine ends there.
Fatal(kind) == kind \notin {"ok", "OrderbookException"}

Init ==
    /\ orders = NewBook.orders
    /\ qs = NewBook.qs
    /\ queues = NewBook.queues
    /\ order_map = NewBook.order_map
    /\ best_queue = NewBook.best_queue
    /\ best_volumes = NewBook.best_volumes
    /\ min_bid = NewBook.min_bid
    /\ max_ask = NewBook.max_ask
    /\ prev_mid = NewBook.prev_mid
    /\ curr_mid = NewBook.curr_mid
    /\ events = <<>>
    /\ err = "ok"
    /\ ncalls = 0
    /\ call = [op |-> "__init__", side |-> None, quantity |-> 0, price |-> 0,
               order_id |-> None, client_id |-> None]
    /\ pre = NewBook
    /\ futures = <<>>
    /\ private_chanel = <<>>
    /\ subscription = [c \in ServerClients |-> NotSubscribed]
    /\ sent = [c \in ServerClients |-> <<>>]
    /\ published = [c \in ServerClients |-> <<>>]

\* A call can be made while the engine runs and the run has calls left.
Callable(calls) ==
    /\ ~Fatal(err)
    /\ ncalls < calls
    /\ ncalls' = ncalls + 1

\* The book after a call.
Returns(S) ==
    \E R \in {Collect(S)} :
        /\ orders' = R.orders
        /\ qs' = R.qs
        /\ queues' = R.queues
        /\ order_map' = R.order_map
        /\ best_queue' = R.best_queue
        /\ best_volumes' = R.best_volumes
        /\ min_bid' = R.min_bid
        /\ max_ask' = R.max_ask
        /\ prev_mid' = R.prev_mid
        /\ curr_mid' = R.curr_mid
        /\ events' = R.events
        /\ err' = R.err

\* The call that is made; an argument the method does not take is None.
Calling(op, side, quantity, price, order_id, client_id) ==
    /\ call' = [op |-> op, side |-> side, quantity |-> quantity,
                price |-> price, order_id |-> order_id,
                client_id |-> client_id]
    /\ pre' = Book

\* The call a caller makes on an Orderbook of its own: send_private is the
\* caller's function and no channel of a server is touched.
Called(op, side, quantity, price, order_id, client_id) ==
    /\ Calling(op, side, quantity, price, order_id, client_id)
    /\ UNCHANGED <<futures, private_chanel, subscription, sent, published>>

\* An order id a caller may name: one of the ids issued, or one never issued.
OrderIds == 1..(Len(orders) + 1)

Limit(calls, quantities) ==
    /\ Callable(calls)
    /\ \E side \in Sides, quantity \in quantities, price \in Prices,
          client_id \in Clients :
         /\ Called("on_limit", side, quantity, price, None, client_id)
         /\ Returns(on_limit(Book, side, quantity, price, client_id))

Marketable(calls, quantities) ==
    /\ Callable(calls)
    /\ \E side \in Sides, quantity \in quantities, price \in Prices,
          client_id \in Clients :
         /\ Called("on_marketable", side, quantity, price, None, client_id)
         /\ Returns(on_marketable(Book, side, quantity, price, client_id))

Market(calls, quantities) ==
    /\ Callable(calls)
    /\ \E side \in Sides, quantity \in quantities, client_id \in Clients :
         /\ Called("on_market", side, quantity, None, None, client_id)
         /\ Returns(on_market(Book, side, quantity, client_id))

Cancel(calls) ==
    /\ Callable(calls)
    /\ \E order_id \in OrderIds :
         /\ Called("on_cancel", None, None, None, order_id, None)
         /\ Returns(on_cancel(Book, order_id))

Amend(calls, quantities) ==
    /\ Callable(calls)
    /\ \E order_id \in OrderIds, quantity \in quantities, price \in Prices :
         /\ Called("on_amend", None, quantity, price, order_id, None)
         /\ Returns(on_amend(Book, order_id, quantity, price))

\* Spec: every input, MaxCalls calls.
OnLimit == Limit(MaxCalls, Quantities)
OnMarketable == Marketable(MaxCalls, Quantities)
OnMarket == Market(MaxCalls, Quantities)
OnCancel == Cancel(MaxCalls)
OnAmend == Amend(MaxCalls, Quantities)

Next == OnLimit \/ OnMarketable \/ OnMarket \/ OnCancel \/ OnAmend

Spec == Init /\ [][Next]_vars

\* SpecUnit: orders of one unit, one call more.
UnitCalls == MaxCalls + 1
UnitQuantities == {1}

UnitOnLimit == Limit(UnitCalls, UnitQuantities)
UnitOnMarketable == Marketable(UnitCalls, UnitQuantities)
UnitOnMarket == Market(UnitCalls, UnitQuantities)
UnitOnCancel == Cancel(UnitCalls)
UnitOnAmend == Amend(UnitCalls, UnitQuantities)

NextUnit ==
    UnitOnLimit \/ UnitOnMarketable \/ UnitOnMarket \/ UnitOnCancel
        \/ UnitOnAmend

SpecUnit == Init /\ [][NextUnit]_vars

\* SpecDeep: a longer run over a wider price grid.  Limit orders of one
\* unit, asks at any price of the grid and bids at its lower prices; an
\* amendment moves the order created last one tick up.
DeepCalls == 6          \* calls of a run of SpecDeep
DeepLevels == 5         \* price levels a caller of SpecDeep may name
DeepBidLevels == 3      \* the lowest of them, where SpecDeep places bids
DeepPrices == {MinPrice + k * TickSize : k \in 0..(DeepLevels - 1)}
DeepBids == {MinPrice + k * TickSize : k \in 0..(DeepBidLevels - 1)}

DeepOnLimit ==
    /\ Callable(DeepCalls)
    /\ \E side \in Sides, price \in DeepPrices, client_id \in Clients :
         /\ side = BID => price \in DeepBids
         /\ Called("on_limit", side, 1, price, None, client_id)
         /\ Returns(on_limit(Book, side, 1, price, client_id))

DeepOnAmend ==
    /\ Callable(DeepCalls)
    /\ \E order_id \in {Len(orders)} \ {0} :
         \E price \in {orders[order_id].price + TickSize} \cap DeepPrices :
           /\ Called("on_amend", None, 1, price, order_id, None)
           /\ Returns(on_amend(Book, order_id, 1, price))

NextDeep == DeepOnLimit \/ DeepOnAmend

SpecDeep == Init /\ [][NextDeep]_vars

\* SpecAny: callers that do not validate.  Quantities from 0, which
\* is_valid_quantity refuses, and prices from one tick below min_price,
\* which is_valid_price refuses.
AnyCalls == 3           \* calls of a run of SpecAny
AnyQuantities == 0..1
AnyPrices == {MinPrice + k * TickSize : k \in -1..1}

AnyOnLimit ==
    /\ Callable(AnyCalls)
    /\ \E side \in Sides, quantity \in AnyQuantities, price \in AnyPrices,
          client_id \in Clients :
         /\ Called("on_limit", side, quantity, price, None, client_id)
         /\ Returns(on_limit(Book, side, quantity, price, client_id))

AnyOnMarketable ==
    /\ Callable(AnyCalls)
    /\ \E side \in Sides, quantity \in AnyQuantities, price \in AnyPrices,
          client_id \in Clients :
         /\ Called("on_marketable", side, quantity, price, None, client_id)
         /\ Returns(on_marketable(Book, side, quantity, price, client_id))

AnyOnMarket ==
    /\ Callable(AnyCalls)
    /\ \E side \in Sides, quantity \in AnyQuantities, client_id \in Clients :
         /\ Called("on_market", side, quantity, None, None, client_id)
         /\ Returns(on_market(Book, side, quantity, client_id))

AnyOnAmend ==
    /\ Callable(AnyCalls)
    /\ \E order_id \in OrderIds, quantity \in AnyQuantities,
          price \in AnyPrices :
         /\ Called("on_amend", None, quantity, price, order_id, None)
         /\ Returns(on_amend(Book, order_id, quantity, price))

NextAny == AnyOnLimit \/ AnyOnMarketable \/ AnyOnMarket \/ AnyOnAmend

SpecAny == Init /\ [][NextAny]_vars

\* SpecTakers: two clients.  The maker places limit orders, the taker sends
\* market and marketable orders.
TakerCalls == 3         \* calls of a run of SpecTakers
Maker == NumClients
Taker == NumClients + 1

MakerOnLimit ==
    /\ Callable(TakerCalls)
    /\ \E side \in Sides, quantity \in Quantities, price \in Prices :
         /\ Called("on_limit", side, quantity, price, None, Maker)
         /\ Returns(on_limit(Book, side, quantity, price, Maker))

TakerOnMarketable ==
    /\ Callable(TakerCalls)
    /\ \E side \in Sides, quantity \in Quantities, price \in Prices :
         /\ Called("on_marketable", side, quantity, price, None, Taker)
         /\ Returns(on_marketable(Book, side, quantity, price, Taker))

TakerOnMarket ==
    /\ Callable(TakerCalls)
    /\ \E side \in Sides, quantity \in Quantities :
         /\ Called("on_market", side, quantity, None, None, Taker)
         /\ Returns(on_market(Book, side, quantity, Taker))

NextTakers == MakerOnLimit \/ TakerOnMarketable \/ TakerOnMarket

SpecTakers == Init /\ [][NextTakers]_vars

\* ------------------------------------------------------------- _PubSub
\* The server side of the state as one record, the value that the channel
\* operators transform.
Server == [futures |-> futures, private_chanel |-> private_chanel]

\* asyncio.get_running_loop().create_future(): a pending future, the new
\* last object of the heap.
PendingFuture == [done |-> FALSE, value |-> None, next |-> None]

create_future(V) == [V EXCEPT !.futures = Append(@, PendingFuture)]

\* The key of a channel: send_private is given a client id, or (Queue.fill)
\* an order id.
ChannelKey(to, toOrder) == [to |-> to, toOrder |-> toOrder]

\* WebsocketServer.private_chanel(key): under a key it does not hold, the
\* server stores _PubSub(), whose waiter is a new future.
private_chanel_of(V, key) ==
    IF key \in DOMAIN V.private_chanel THEN V
    ELSE [create_future(V) EXCEPT
            !.private_chanel =
                [k \in (DOMAIN @) \cup {key} |->
                    IF k = key THEN Len(V.futures) + 1 ELSE @[k]]]

\* _PubSub.publish(value) of the channel under `key`: the channel takes a new
\* future as its waiter and the old one gets the result (value, new waiter).
publish(V, key, value) ==
    [create_future(V) EXCEPT
        !.futures[V.private_chanel[key]] =
            [done |-> TRUE, value |-> value, next |-> Len(V.futures) + 1],
        !.private_chanel[key] = Len(V.futures) + 1]

\* __aiter__ that reads self.waiter anew after each value.
next_waiter_latest(V, key, w) == V.private_chanel[key]

\* The waiter that _PubSub.__aiter__ awaits next, once future w has given
\* its result: value, waiter = await waiter.
next_waiter(V, key, w) == V.futures[w].next

\* build_message(event="private", data=message) for the i-th thing that call
\* n emitted; n and i stand for what tells two messages apart (the order and
\* its timestamps).
Message(n, i, e) == [call |-> n, index |-> i, status |-> e.status, oid |-> e.oid]

\* WebsocketServer._private_broadcast(client_id, message)
_private_broadcast(V, key, message) ==
    publish(private_chanel_of(V, key), key, message)

\* The notifications es[i..] of call n, each passed to send_private as the
\* method emits it.
RECURSIVE Broadcast(_, _, _, _)
Broadcast(V, es, n, i) ==
    IF i > Len(es) THEN V
    ELSE IF es[i].kind # "notify" THEN Broadcast(V, es, n, i + 1)
    ELSE Broadcast(_private_broadcast(V, ChannelKey(es[i].to, es[i].toOrder),
                                      Message(n, i, es[i])),
                   es, n, i + 1)

\* The messages of the notifications es[i..] of call n whose client_id
\* argument is client c.
RECURSIVE MessagesTo(_, _, _, _)
MessagesTo(c, es, n, i) ==
    IF i > Len(es) THEN <<>>
    ELSE IF es[i].kind = "notify" /\ es[i].to = c /\ ~es[i].toOrder
    THEN <<Message(n, i, es[i])>> \o MessagesTo(c, es, n, i + 1)
    ELSE MessagesTo(c, es, n, i + 1)

\* The values of the results set from future w on, in the order of the
\* links; n bounds the walk.
RECURSIVE ValuesFrom(_, _)
ValuesFrom(w, n) ==
    IF n = 0 \/ w = None \/ ~futures[w].done THEN <<>>
    ELSE <<futures[w].value>> \o ValuesFrom(futures[w].next, n - 1)

\* ----------------------------------------------------------- OrderType
\* class OrderType(Enum): the names in the order of the class body, and
\* their values.
OrderTypeNames ==
    <<"CANCEL", "AMEND", "LIMIT", "MARKET", "MARKETABLE", "STOP",
      "STOP_MARKET", "TAKE_PROFIT", "TAKE_PROFIT_MARKET",
      "TRAILING_STOP_MARKET">>
OrderTypeValues ==
    <<"CANCEL", "AMEND", "LIMIT", "MARKET", "LIMIT", "STOP",
      "STOP", "TAKE_PROFIT", "TAKE_PROFIT_MARKET",
      "TRAILING_STOP_MARKET">>

\* OrderType(value): the member with that value, named by the first name
\* defined with it (a later name with the same value is an alias of that
\* member); ValueError when there is none.
OrderType(value) ==
    IF \E i \in 1..Len(OrderTypeValues) : OrderTypeValues[i] = value
    THEN OrderTypeNames[CHOOSE i \in 1..Len(OrderTypeValues) :
            /\ OrderTypeValues[i] = value
            /\ \A j \in 1..(i - 1) : OrderTypeValues[j] # value]
    ELSE "ValueError"

\* OrderType.<name>: the member that the name, or the alias, stands for.
OrderTypeMember(name) ==
    OrderType(OrderTypeValues[CHOOSE i \in 1..Len(OrderTypeNames) :
                                 OrderTypeNames[i] = name])

\* OrderType.__str__: self.name
OrderTypeStr(member) == member

\* Side.lob_side(order_side)
lob_side(order_side) == IF order_side = "Sell" THEN -1 ELSE 1

\* Side(value)
SideOfValue(value) == IF value = 1 THEN BID ELSE ASK

OrderSides == {"Buy", "Sell"}

\* ------------------------------------------------------ WebsocketServer
\* The keyword arguments that a trading request carries.
Params(order_type, side, quantity, price, order_id, client_id) ==
    [order_type |-> order_type, side |-> side, quantity |-> quantity,
     price |-> price, order_id |-> order_id, client_id |-> client_id]

Given(params) ==
    {k \in {"side", "quantity", "price", "order_id", "client_id"} :
        params[k] # None}

\* The method that the match statement of _on_trading_request selects for
\* a member: the first case that equals it.
Dispatch(order_type) ==
    IF order_type = OrderTypeMember("LIMIT") THEN "on_limit"
    ELSE IF order_type = OrderTypeMember("AMEND") THEN "on_amend"
    ELSE IF order_type = OrderTypeMember("MARKET") THEN "on_market"
    ELSE IF order_type = OrderTypeMember("CANCEL") THEN "on_cancel"
    ELSE IF order_type = OrderTypeMember("MARKETABLE") THEN "on_marketable"
    ELSE "error"

\* WebsocketServer._on_trading_request(params).  method(**params) raises
\* TypeError unless the keywords are the parameters of the method.
_on_trading_request(S, params) ==
    Let(OrderType(params.order_type), LAMBDA order_type :
    IF order_type = "ValueError" THEN Raise(S, "ValueError")
    ELSE
    Let(Dispatch(order_type), LAMBDA method :
    IF method = "on_limit"
    THEN IF Given(params) # {"side", "quantity", "price", "client_id"}
         THEN Raise(S, "TypeError")
         ELSE on_limit(S, SideOfValue(params.side), params.quantity,
                       params.price, params.client_id)
    ELSE IF method = "on_marketable"
    THEN IF Given(params) # {"side", "quantity", "price", "client_id"}
         THEN Raise(S, "TypeError")
         ELSE on_marketable(S, SideOfValue(params.side), params.quantity,
                            params.price, params.client_id)
    ELSE IF method = "on_market"
    THEN IF Given(params) # {"side", "quantity", "client_id"}
         THEN Raise(S, "TypeError")
         ELSE on_market(S, SideOfValue(params.side), params.quantity,
                        params.client_id)
    ELSE IF method = "on_cancel"
    THEN IF Given(params) # {"order_id"}
         THEN Raise(S, "TypeError")
         ELSE on_cancel(S, params.order_id)
    ELSE IF method = "on_amend"
    THEN IF Given(params) # {"order_id", "quantity", "price"}
         THEN Raise(S, "TypeError")
         ELSE on_amend(S, params.order_id, params.quantity, params.price)
    ELSE S))

\* SpecServer: the server and two clients of VirtualExchange, orders at the
\* lowest price of the grid.
ServerCalls == 3        \* trading requests of a run of SpecServer
ServerLevels == 1       \* price levels of SpecServer
ServerPrices == {MinPrice + k * TickSize : k \in 0..(ServerLevels - 1)}

\* A trading request can be made while the event loop runs (a scan that
\* never returns blocks it) and the run has requests left.  An exception of
\* a request ends its connection handler only.
Requestable ==
    /\ err # "hang"
    /\ ncalls < ServerCalls
    /\ ncalls' = ncalls + 1

\* WebsocketClient.place_order(**kwargs) of client c, and the server's
\* answer: _on_private passes the params to _on_trading_request, and each
\* notification of the method goes through _private_broadcast.
place_order(c, op, params) ==
    /\ subscription[c].at # "none"
    /\ Calling(op, IF params.side = None THEN None
                   ELSE SideOfValue(params.side),
               params.quantity, params.price, params.order_id, c)
    /\ \E S \in {_on_trading_request(
                    Book, [params EXCEPT !.client_id = c])} :
         /\ Returns(S)
         /\ \E V \in {Broadcast(Server, S.events, ncalls + 1, 1)} :
              /\ futures' = V.futures
              /\ private_chanel' = V.private_chanel
         /\ published' =
              [k \in ServerClients |->
                  IF subscription[k].at = "none" THEN published[k]
                  ELSE published[k] \o MessagesTo(k, S.events, ncalls + 1, 1)]
    /\ UNCHANGED <<subscription, sent>>

\* VirtualExchange.limit_order
limit_order ==
    /\ Requestable
    /\ \E c \in ServerClients, side \in OrderSides, quantity \in Quantities,
          price \in ServerPrices :
         /\ is_valid_quantity(quantity)
         /\ is_valid_price(price)
         /\ place_order(c, "limit_order",
                Params(OrderTypeStr(OrderTypeMember("LIMIT")),
                       lob_side(side), quantity, price, None, None))

\* VirtualExchange.marketable_order
marketable_order ==
    /\ Requestable
    /\ \E c \in ServerClients, side \in OrderSides, quantity \in Quantities,
          price \in ServerPrices :
         /\ is_valid_quantity(quantity)
         /\ is_valid_price(price)
         /\ place_order(c, "marketable_order",
                Params(OrderTypeStr(OrderTypeMember("MARKETABLE")),
                       lob_side(side), quantity, price, None, None))

\* VirtualExchange.market_order
market_order ==
    /\ Requestable
    /\ \E c \in ServerClients, side \in OrderSides, quantity \in Quantities :
         /\ is_valid_quantity(quantity)
         /\ place_order(c, "market_order",
                Params(OrderTypeStr(OrderTypeMember("MARKET")),
                       -lob_side(side), quantity, None, None, None))

\* VirtualExchange.cancel_order
cancel_order ==
    /\ Requestable
    /\ \E c \in ServerClients, order_id \in OrderIds \cap {1} :
         place_order(c, "cancel_order",
             Params(OrderTypeStr(OrderTypeMember("CANCEL")),
                    None, None, None, order_id, None))

\* VirtualExchange.amend_order
amend_order ==
    /\ Requestable
    /\ \E c \in ServerClients, order_id \in OrderIds \cap {1},
          quantity \in {None, MinQty}, price \in {None, MinPrice} :
         /\ quantity # None => is_valid_quantity(quantity)
         /\ price # None => is_valid_price(price)
         /\ place_order(c, "amend_order",
                Params(OrderTypeStr(OrderTypeMember("AMEND")),
                       None, quantity, price, order_id, None))

\* The book and the last call stay as they are.
NoRequest ==
    UNCHANGED <<orders, qs, queues, order_map, best_queue, best_volumes,
                min_bid, max_ask, prev_mid, curr_mid, events, err, ncalls,
                call, pre>>

\* WebsocketServer._on_trading_init up to its first suspension in the
\* channel: the client is sent its id, and __aiter__ takes the waiter of
\* private_chanel(client_id) and awaits it.
_on_trading_init ==
    /\ err # "hang"
    /\ \E c \in ServerClients :
         /\ subscription[c].at = "none"
         /\ \E V \in {private_chanel_of(Server, ChannelKey(c, FALSE))} :
              /\ futures' = V.futures
              /\ private_chanel' = V.private_chanel
              /\ subscription' =
                   [subscription EXCEPT ![c] =
                       [at |-> "waiter",
                        waiter |-> V.private_chanel[ChannelKey(c, FALSE)],
                        message |-> None]]
    /\ NoRequest
    /\ UNCHANGED <<sent, published>>

\* __aiter__ resumes with the result of the future it awaits, yields the
\* value, and _on_trading_init suspends in websocket.send(message).
aiter_yield ==
    /\ err # "hang"
    /\ \E c \in ServerClients :
         /\ subscription[c].at = "waiter"
         /\ futures[subscription[c].waiter].done
         /\ subscription' =
              [subscription EXCEPT ![c] =
                  [at |-> "send",
                   waiter |-> next_waiter(Server, ChannelKey(c, FALSE),
                                          subscription[c].waiter),
                   message |-> futures[subscription[c].waiter].value]]
    /\ NoRequest
    /\ UNCHANGED <<futures, private_chanel, sent, published>>

\* websocket.send(message) returns and the loop asks __aiter__ for the next
\* value: it awaits its waiter.
websocket_send ==
    /\ err # "hang"
    /\ \E c \in ServerClients :
         /\ subscription[c].at = "send"
         /\ sent' = [sent EXCEPT ![c] = Append(@, subscription[c].message)]
         /\ subscription' =
              [subscription EXCEPT ![c] =
                  [at |-> "waiter", waiter |-> @.waiter, message |-> None]]
    /\ NoRequest
    /\ UNCHANGED <<futures, private_chanel, published>>

NextServer ==
    \/ _on_trading_init
    \/ aiter_yield
    \/ websocket_send
    \/ limit_order
    \/ marketable_order
    \/ market_order
    \/ cancel_order
    \/ amend_order

SpecServer == Init /\ [][NextServer]_vars

\* The event loop runs every task that is ready: a subscriber whose future
\* has its result is resumed, and a send that was started returns.
FairSpecServer ==
    SpecServer /\ WF_vars(aiter_yield) /\ WF_vars(websocket_send)

\* ------------------------------------------------------- book structure
\* The last call returned: it ended without an exception, or with the
\* OrderbookException of an unknown order id.
Returned == ~Fatal(err)

\* The orders linked from o by onext up to tail; n bounds the walk.
RECURSIVE ChainFrom(_, _, _, _)
ChainFrom(S, o, tail, n) ==
    IF o = None \/ n = 0 THEN <<>>
    ELSE IF o = tail THEN <<o>>
    ELSE <<o>> \o ChainFrom(S, S.orders[o].onext, tail, n - 1)

\* The ohead..otail chain of queue q.
Chain(S, q) == ChainFrom(S, S.qs[q].ohead, S.qs[q].otail, Len(S.orders))

\* The queues linked from q by qnext; n bounds the walk.
RECURSIVE LadderFrom(_, _, _)
LadderFrom(S, q, n) ==
    IF q = None \/ n = 0 THEN <<>>
    ELSE <<q>> \o LadderFrom(S, S.qs[q].qnext, n - 1)

\* The ladder of a side: best_queue[side], qnext, qnext, ...
Ladder(S, side) == LadderFrom(S, S.best_queue[side], Len(S.qs) + 1)

\* The queues stored in `queues`, and those of one side.
Indexed(S) == {S.queues[p] : p \in DOMAIN S.queues}
IndexedOf(S, side) == {q \in Indexed(S) : S.qs[q].side = side}

\* The queues of the book: stored in `queues` or on a ladder.
InBook(S) == Indexed(S) \cup UNION {Range(Ladder(S, s)) : s \in Sides}

RECURSIVE VolumeOf(_, _)
VolumeOf(S, Q) ==
    IF Q = {} THEN 0
    ELSE LET q == CHOOSE x \in Q : TRUE
         IN S.qs[q].volume + VolumeOf(S, Q \ {q})

RECURSIVE RemainingOf(_, _)
RemainingOf(S, chain) ==
    IF chain = <<>> THEN 0
    ELSE S.orders[Head(chain)].remaining + RemainingOf(S, Tail(chain))

\* How many times order o occurs in the chains of the queues Q.
RECURSIVE Occurrences(_, _, _)
Occurrences(S, Q, o) ==
    IF Q = {} THEN 0
    ELSE LET q == CHOOSE x \in Q : TRUE
             chain == Chain(S, q)
         IN Cardinality({i \in 1..Len(chain) : chain[i] = o})
            + Occurrences(S, Q \ {q}, o)

Limits(S, Q) == {S.qs[q].limit : q \in Q}
Lowest(P) == CHOOSE p \in P : \A r \in P : p <= r
Highest(P) == CHOOSE p \in P : \A r \in P : p >= r

\* The fills of the last call.
Fills == {i \in 1..Len(events) : events[i].kind = "fill"}

\* --------------------------------------------------------------- claims
\* C1: after every operation, for each side s best_volumes[s] equals the sum
\* of Queue.volume over all queues of side s.
C1_BestVolumesAreSideTotals ==
    Returned =>
        \A s \in Sides :
            best_volumes[s] = VolumeOf(Book, IndexedOf(Book, s))

\* A call returned and left the total of a side below zero.
C1_NegativeSideTotal == Returned /\ \E s \in Sides : best_volumes[s] < 0

\* C2: after every operation order_map and the queue chains are in
\* bijection: every id of order_map occurs exactly once in the chains of the
\* queues, and every order of a chain is in order_map.
C2_OrderMapMatchesChains ==
    Returned =>
        /\ \A o \in order_map : Occurrences(Book, Indexed(Book), o) = 1
        /\ \A q \in Indexed(Book) : Range(Chain(Book, q)) \subseteq order_map

\* A call returned and an order it filled completely is still in order_map.
C2_FilledOrderStillMapped ==
    /\ Returned
    /\ \E i \in 1..Len(events) :
          /\ events[i].kind = "notify"
          /\ events[i].status = "Filled"
          /\ events[i].oid \in order_map
          /\ orders[events[i].oid].remaining = 0

\* C3: after every operation, when both best queues are non-null the best
\* bid is strictly below the best ask.
C3_BookNotCrossed ==
    Returned =>
        (best_queue[BID] # None /\ best_queue[ASK] # None
            => qs[best_queue[BID]].limit < qs[best_queue[ASK]].limit)

\* A call returned and the best bid is not below the best ask.
C3_CrossedAtRest ==
    /\ Returned
    /\ best_queue[BID] # None /\ best_queue[ASK] # None
    /\ qs[best_queue[BID]].limit >= qs[best_queue[ASK]].limit

\* C4: after every operation, for each side the chain best_queue[s], qnext,
\* ... has strictly worsening prices, best_queue[s].qprev is null, and
\* q.qnext.qprev is q for every queue q of the chain.
C4_LadderMonotoneAndLinked ==
    Returned =>
        \A s \in Sides :
            LET ladder == Ladder(Book, s)
            IN /\ best_queue[s] # None => qs[best_queue[s]].qprev = None
               /\ \A i \in 1..Len(ladder) :
                     qs[ladder[i]].qnext # None =>
                        /\ s * qs[qs[ladder[i]].qnext].limit
                             < s * qs[ladder[i]].limit
                        /\ qs[qs[ladder[i]].qnext].qprev = ladder[i]

\* on_amend returned and a queue of a ladder is followed by a queue at a
\* better price.
C4_BetterPriceBehind ==
    /\ Returned
    /\ \E i \in 1..Len(events) :
          events[i].kind = "notify" /\ events[i].status = "Amended"
    /\ \E s \in Sides : \E q \in Range(Ladder(Book, s)) :
          /\ qs[q].qnext # None
          /\ s * qs[qs[q].qnext].limit > s * qs[q].limit

\* C5: after every operation the ladder and the price index agree: a queue
\* reached from best_queue[s] has side s and is the object stored at its limit
\* in queues, and a queue stored in queues is reached from the best queue of
\* its side.
C5_LadderMatchesIndex ==
    Returned =>
        /\ \A s \in Sides : \A q \in Range(Ladder(Book, s)) :
              /\ qs[q].side = s
              /\ HasKey(Book, qs[q].limit)
              /\ queues[qs[q].limit] = q
        /\ \A q \in Indexed(Book) : q \in Range(Ladder(Book, qs[q].side))

\* A call returned, queues is empty and a side still has a best queue.
C5_BestQueueNotIndexed ==
    /\ Returned
    /\ DOMAIN queues = {}
    /\ \E s \in Sides : best_queue[s] # None

\* C6: after every operation returns, the volume of every queue of the book
\* is the sum of remaining over the orders of its ohead..otail chain.
C6_VolumeIsChainRemaining ==
    Returned =>
        \A q \in InBook(Book) :
            qs[q].volume = RemainingOf(Book, Chain(Book, q))

\* A call returned and a queue stored in queues holds less volume than its
\* chain has remaining.
C6_VolumeBelowChain ==
    /\ Returned
    /\ \E q \in Indexed(Book) :
          qs[q].volume < RemainingOf(Book, Chain(Book, q))

\* C7: after every operation min_bid is the lowest price among the bid
\* queues, or the +infinity sentinel when there is none, and max_ask is the
\* highest price among the ask queues, or 0 when there is none.
C7_MinBidMaxAskAreExtrema ==
    Returned =>
        /\ min_bid = IF IndexedOf(Book, BID) = {} THEN Inf
                     ELSE Lowest(Limits(Book, IndexedOf(Book, BID)))
        /\ max_ask = IF IndexedOf(Book, ASK) = {} THEN 0
                     ELSE Highest(Limits(Book, IndexedOf(Book, ASK)))

\* A call returned, no bid queue is stored in queues and min_bid is a price.
C7_StaleMinBid ==
    /\ Returned
    /\ IndexedOf(Book, BID) = {}
    /\ min_bid # Inf

\* C8: after every operation no empty queue survives: every queue stored in
\* queues or reached from a best queue has a positive volume and a non-null
\* ohead.
C8_NoEmptyQueueSurvives ==
    Returned =>
        \A q \in InBook(Book) : qs[q].volume > 0 /\ qs[q].ohead # None

\* A call returned and the best queue of a side is empty.
C8_EmptyBestQueue ==
    /\ Returned
    /\ \E s \in Sides :
          /\ best_queue[s] # None
          /\ empty(qs[best_queue[s]])
          /\ qs[best_queue[s]].ohead = None

C10_PricePriority ==
    \A i \in Fills :
        LET e == events[i]
        IN e.by = "on_marketable" =>
              /\ e.q = e.best /\ e.oid = e.head /\ e.side = -e.taker
              /\ e.taker * e.limit <= e.taker * e.bound
              /\ e.better = {}

\* on_marketable returned and one of its fills went to an order of the side
\* it was called with.
C10_FilledOwnSide ==
    /\ Returned
    /\ \E i \in Fills :
          /\ events[i].by = "on_marketable"
          /\ events[i].side = events[i].taker

\* ------------------------------------------------------ calls and effects
\* The last call was `op` and it returned without an exception.
Done(op) == call.op = op /\ err = "ok"

\* _create_queue(side, price) made on book S starts the scan of
\* _find_prev_queue: the side has a best queue and price is not better.
ScanStarts(S, side, price) ==
    /\ S.best_queue[side] # None
    /\ ~(side * price > S.qs[S.best_queue[side]].limit * side)

\* C11: every call of the five operations terminates: no scan of
\* _find_prev_queue runs without end and no walk of on_marketable or
\* on_market runs without end; and a scan that a limit order at a new price
\* starts on the book between two calls reaches a queue of the same side.
C11_EveryCallTerminates ==
    /\ err \notin {"hang", "fuel"}
    /\ \A side \in Sides, price \in Prices :
         (~Fatal(err) /\ ~HasKey(Book, price) /\ ScanStarts(Book, side, price))
            => /\ _find_prev_queue(Book, price, side) # None
               /\ qs[_find_prev_queue(Book, price, side)].side = side

\* C11 case: a call whose scan of _find_prev_queue never returned.
C11_ScanWithoutEnd ==
    /\ err = "hang"
    /\ call.op \in {"on_limit", "on_marketable", "on_amend"}

\* C12: on_cancel and on_amend called with an id that is not in order_map
\* raise the unknown-order exception, leave the whole book as it was and emit
\* no notification.
C12_UnknownOrderLeavesBook ==
    (call.op \in {"on_cancel", "on_amend"}
        /\ call.order_id \notin pre.order_map)
    => /\ err = "OrderbookException"
       /\ Book = pre
       /\ events = <<>>

\* C12 case: an unknown id was named to on_amend on a book that holds orders,
\* and the call raised.
C12_UnknownOrderNamed ==
    /\ call.op = "on_amend"
    /\ call.order_id \notin pre.order_map
    /\ pre.order_map # {}
    /\ err = "OrderbookException"

\* The last call was rejected before anything was matched: on_market for
\* more than best_volumes[side], or on_marketable with no queue on the
\* opposite side.
RejectedCall ==
    \/ call.op = "on_market" /\ call.quantity > pre.best_volumes[call.side]
    \/ call.op = "on_marketable" /\ pre.best_queue[-call.side] = None

QueueView(S, q) ==
    IF q = None THEN <<>>
    ELSE <<S.qs[q].limit, S.qs[q].side, S.qs[q].volume, S.qs[q].nb_orders,
           Chain(S, q)>>

\* What a caller sees of the book: the queues by price, the best queue of
\* each side, best_volumes, min_bid and max_ask.
BookView(S) ==
    [levels |-> [p \in DOMAIN S.queues |-> QueueView(S, S.queues[p])],
     best |-> [s \in Sides |-> QueueView(S, S.best_queue[s])],
     best_volumes |-> S.best_volumes,
     min_bid |-> S.min_bid,
     max_ask |-> S.max_ask]

\* on_limit(side, ., price) made on book S does not cross: it takes the
\* branch of on_limit that inserts the order.
NonCrossing(S, side, price) ==
    ~(S.best_queue[-side] # None
      /\ price * side >= S.qs[S.best_queue[-side]].limit * side)

\* The last call was a non-crossing on_limit and it returned.
PlacedLimit ==
    /\ Done("on_limit")
    /\ NonCrossing(pre, call.side, call.price)

\* C14: a non-crossing on_limit followed at once by on_cancel of the order it
\* created restores the book of before: the same queues with the same limits,
\* volumes, nb_orders and order sequences, the same best queue per side, the
\* same best_volumes, min_bid and max_ask.
C14_LimitThenCancelRestores ==
    PlacedLimit
    => /\ on_cancel(Book, Len(orders)).err = "ok"
       /\ BookView(Collect(on_cancel(Book, Len(orders)))) = BookView(pre)

\* C14 case: a non-crossing limit order was placed on a side that held
\* orders, at a price that held none, and its cancel returns.
C14_PlacedAtNewPrice ==
    /\ PlacedLimit
    /\ pre.best_queue[call.side] # None
    /\ ~HasKey(pre, call.price)
    /\ on_cancel(Book, Len(orders)).err = "ok"

\* The notifications of status "rejected" that the last call emitted.
Rejections ==
    {i \in 1..Len(events) :
        events[i].kind = "notify" /\ events[i].status = "rejected"}

\* The last call was on_market for exactly best_volumes[side], more than 0.
MarketForAll ==
    /\ call.op = "on_market"
    /\ call.quantity = pre.best_volumes[call.side]
    /\ call.quantity > 0

\* C15: on_market(side, V) with V = best_volumes[side] > 0 is accepted and
\* empties the side: afterwards best_queue[side] is null, best_volumes[side]
\* is 0 and no order of that side remains in order_map.
C15_FullMarketEmptiesSide ==
    MarketForAll
    => /\ err = "ok"
       /\ Rejections = {}
       /\ best_queue[call.side] = None
       /\ best_volumes[call.side] = 0
       /\ \A o \in order_map : orders[o].side # call.side

\* C15 case: a market order for all of best_volumes[side] was made on a side
\* of several orders and returned with that side's best_volumes at 0.
C15_SideConsumed ==
    /\ MarketForAll
    /\ Cardinality({o \in pre.order_map :
                      pre.orders[o].side = call.side}) > 1
    /\ err = "ok"
    /\ best_volumes[call.side] = 0

\* The total remaining quantity of the orders in the chains of the queues Q.
RECURSIVE RemainingIn(_, _)
RemainingIn(S, Q) ==
    IF Q = {} THEN 0
    ELSE LET q == CHOOSE x \in Q : TRUE
         IN RemainingOf(S, Chain(S, q)) + RemainingIn(S, Q \ {q})

\* The queues of book S that an order of `side` at `price` may match: those
\* of the opposite side with side * limit <= side * price.
Matchable(S, side, price) ==
    {q \in IndexedOf(S, -side) : side * S.qs[q].limit <= side * price}

\* The last call was a crossing limit order: on_limit or on_marketable at a
\* price that reaches the best queue of the opposite side.
CrossingLimit ==
    /\ call.op \in {"on_limit", "on_marketable"}
    /\ ~NonCrossing(pre, call.side, call.price)

\* The volume a crossing limit order could match in the book it was made on.
Crossable == RemainingIn(pre, Matchable(pre, call.side, call.price))

\* The last call created exactly one order, which rests alone in the queue at
\* call.price, the best queue of call.side, with the given quantity left.
OneNewResting(quantity) ==
    /\ Len(orders) = Len(pre.orders) + 1
    /\ order_map \ pre.order_map = {Len(orders)}
    /\ orders[Len(orders)].side = call.side
    /\ orders[Len(orders)].price = call.price
    /\ orders[Len(orders)].remaining = quantity
    /\ HasKey(Book, call.price)
    /\ best_queue[call.side] = queues[call.price]
    /\ Chain(Book, queues[call.price]) = <<Len(orders)>>

\* C16: a crossing limit order of quantity Q at price p, V being the total
\* remaining volume of the opposite queues with side * limit <= side * p.
\* If Q > V all those queues are removed and exactly one new order, of
\* quantity Q - V, rests at p on the submitting side as the content of its
\* best queue; if Q = V no new resting order is created; if Q < V no new
\* resting order is created and the opposite side keeps exactly V - Q at
\* those prices.
C16_CrossingLimitResidual ==
    CrossingLimit
    => /\ err = "ok"
       /\ call.quantity > Crossable
            => /\ Matchable(Book, call.side, call.price) = {}
               /\ OneNewResting(call.quantity - Crossable)
       /\ call.quantity <= Crossable
            => /\ Len(orders) = Len(pre.orders)
               /\ order_map \subseteq pre.order_map
       /\ call.quantity < Crossable
            => RemainingIn(Book, Matchable(Book, call.side, call.price))
                   = Crossable - call.quantity

\* C16 case: a crossing limit order larger than the volume it could match
\* returned and left a new order in the book.
C16_ResidualRests ==
    /\ CrossingLimit
    /\ call.quantity > Crossable
    /\ Crossable > 0
    /\ err = "ok"
    /\ Len(orders) = Len(pre.orders) + 1

\* What a caller sees of the queue book S holds at price p; <<>> if none.
LevelView(S, p) ==
    IF HasKey(S, p) THEN QueueView(S, S.queues[p]) ELSE <<>>

\* What a caller sees of one side of the book: its queues by price, its best
\* queue and its best_volumes.
SideView(S, side) ==
    [levels |-> [p \in {r \in DOMAIN S.queues : S.qs[S.queues[r]].side = side}
                   |-> QueueView(S, S.queues[p])],
     best |-> QueueView(S, S.best_queue[side]),
     best_volumes |-> S.best_volumes[side]]

\* The last call was on_limit at a price that does not reach the best queue
\* of the opposite side, or with no queue on the opposite side.
PassiveLimit == call.op = "on_limit" /\ NonCrossing(pre, call.side, call.price)

\* C17: a non-crossing on_limit(side, q, p) executes nothing: it adds exactly
\* one order with remaining q at the tail of the queue at p on side, raises
\* that queue's nb_orders by 1 and its volume and best_volumes[side] by q,
\* and leaves every queue of the opposite side, best_queue[-side] and
\* best_volumes[-side] unchanged; a price better than the best of the own
\* side becomes the new best_queue[side].
C17_PassiveLimitOnlyAdds ==
    PassiveLimit
    => /\ err = "ok"
       /\ Fills = {}
       /\ Len(orders) = Len(pre.orders) + 1
       /\ orders[Len(orders)].remaining = call.quantity
       /\ HasKey(Book, call.price)
       /\ qs[queues[call.price]].side = call.side
       /\ qs[queues[call.price]].otail = Len(orders)
       /\ LevelView(Book, call.price) =
            IF HasKey(pre, call.price)
            THEN <<call.price, call.side,
                   LevelView(pre, call.price)[3] + call.quantity,
                   LevelView(pre, call.price)[4] + 1,
                   Append(LevelView(pre, call.price)[5], Len(orders))>>
            ELSE <<call.price, call.side, call.quantity, 1, <<Len(orders)>> >>
       /\ best_volumes[call.side] =
            pre.best_volumes[call.side] + call.quantity
       /\ SideView(Book, -call.side) = SideView(pre, -call.side)
       /\ (pre.best_queue[call.side] = None
           \/ call.side * call.price
                > call.side * pre.qs[pre.best_queue[call.side]].limit)
            => best_queue[call.side] = queues[call.price]

\* C17 case: a non-crossing limit order joined a queue that held an order,
\* with orders resting on the opposite side.
C17_JoinedQueue ==
    /\ PassiveLimit
    /\ HasKey(pre, call.price)
    /\ pre.best_queue[-call.side] # None
    /\ err = "ok"
    /\ Len(Chain(Book, queues[call.price])) > 1

\* The last call was on_market for no more than best_volumes[side]: the
\* order was accepted.
AcceptedMarket ==
    /\ call.op = "on_market"
    /\ call.quantity <= pre.best_volumes[call.side]

\* The orders of `side` left in book S: the total remaining of its queues.
SideRemaining(S, side) == RemainingIn(S, IndexedOf(S, side))

\* C18: an accepted on_market(side, Q) consumes exactly Q from the side
\* passed as `side`, best price level first and head order first: the total
\* remaining volume of that side has decreased by exactly Q, the levels fully
\* consumed are gone, the first level not fully consumed is best_queue[side]
\* with its volume reduced accordingly, and the other side is untouched.
C18_MarketConsumesBestFirst ==
    AcceptedMarket
    => /\ err = "ok"
       /\ Rejections = {}
       /\ \A i \in Fills :
            /\ events[i].side = call.side
            /\ events[i].oid = events[i].head
            /\ events[i].q = events[i].best
            /\ events[i].better = {}
       /\ SideRemaining(Book, call.side)
            = SideRemaining(pre, call.side) - call.quantity
       /\ \A q \in IndexedOf(Book, call.side) :
            /\ Chain(Book, q) # <<>>
            /\ qs[q].volume = RemainingOf(Book, Chain(Book, q))
            /\ qs[q].volume > 0
       /\ IF IndexedOf(Book, call.side) = {}
          THEN best_queue[call.side] = None
          ELSE /\ best_queue[call.side] \in IndexedOf(Book, call.side)
               /\ \A q \in IndexedOf(Book, call.side) :
                    call.side * qs[best_queue[call.side]].limit
                        >= call.side * qs[q].limit
       /\ SideView(Book, -call.side) = SideView(pre, -call.side)

\* C18 case: an accepted market order consumed a whole level and part of the
\* next one.
C18_ConsumedIntoNextLevel ==
    /\ AcceptedMarket
    /\ err = "ok"
    /\ Cardinality({events[i].limit : i \in Fills}) > 1
    /\ best_queue[call.side] # None

\* Order o rests in book S: it is in order_map and in the chain of its
\* queue, and that queue is the one `queues` holds at its limit.
RestsIn(S, o) ==
    /\ o \in S.order_map
    /\ S.orders[o].queue # None
    /\ S.orders[o].queue \in Indexed(S)
    /\ \E i \in 1..Len(Chain(S, S.orders[o].queue)) :
         Chain(S, S.orders[o].queue)[i] = o

\* The last call was on_cancel of an order that rested in the book.
CancelledResting == call.op = "on_cancel" /\ RestsIn(pre, call.order_id)

\* The queue of the cancelled order, its limit and its chain before the call.
CancelQueue == pre.orders[call.order_id].queue
CancelLimit == pre.qs[CancelQueue].limit
CancelChain == Chain(pre, CancelQueue)

\* The best queue of `side` among those `queues` holds; None if none.
BestIndexed(S, side) ==
    IF IndexedOf(S, side) = {} THEN None
    ELSE CHOOSE q \in IndexedOf(S, side) :
            \A r \in IndexedOf(S, side) :
                side * S.qs[q].limit >= side * S.qs[r].limit

\* C19: on_cancel of an order resting as sole, head, middle or tail of a
\* queue of n orders removes exactly that order: its id leaves order_map, the
\* other n - 1 orders keep their relative order, nb_orders becomes n - 1, the
\* queue volume decreases by the remaining of the cancelled order, the new
\* head has oprev null and the new tail has onext null; when n = 1 the queue
\* is deleted and, if it was the best, best_queue[side] advances to the next
\* level or becomes null.
C19_CancelRemovesExactlyOne ==
    CancelledResting
    => /\ err = "ok"
       /\ call.order_id \notin order_map
       /\ Len(CancelChain) > 1
            => /\ HasKey(Book, CancelLimit)
               /\ Chain(Book, queues[CancelLimit])
                    = Without(CancelChain, call.order_id)
               /\ qs[queues[CancelLimit]].nb_orders = Len(CancelChain) - 1
               /\ qs[queues[CancelLimit]].volume
                    = pre.qs[CancelQueue].volume
                      - pre.orders[call.order_id].remaining
               /\ orders[qs[queues[CancelLimit]].ohead].oprev = None
               /\ orders[qs[queues[CancelLimit]].otail].onext = None
       /\ Len(CancelChain) = 1
            => /\ ~HasKey(Book, CancelLimit)
               /\ pre.best_queue[pre.qs[CancelQueue].side] = CancelQueue
                    => best_queue[pre.qs[CancelQueue].side]
                         = BestIndexed(Book, pre.qs[CancelQueue].side)

\* C19 case: the middle order of a queue of three was cancelled.
C19_CancelledMiddle ==
    /\ CancelledResting
    /\ Len(CancelChain) = 3
    /\ CancelChain[2] = call.order_id
    /\ err = "ok"

\* Orderbook.mid_price
mid_price(S) == S.curr_mid

\* The prices of the orders of `side` that rest in book S.
RestingPrices(S, side) ==
    {S.orders[o].price : o \in {r \in Resting(S) : S.orders[r].side = side}}

\* C20: after every operation, if no order rests on either side mid_price is
\* null; if only bids rest mid_price = best_bid + tick / 2; if only asks rest
\* mid_price = best_ask - tick / 2, best_bid and best_ask being the best
\* prices among the orders that rest.
C20_MidOfOneSidedBook ==
    Returned =>
        /\ (RestingPrices(Book, BID) = {} /\ RestingPrices(Book, ASK) = {})
             => mid_price(Book) = NoMid
        /\ (RestingPrices(Book, BID) # {} /\ RestingPrices(Book, ASK) = {})
             => mid_price(Book) = Highest(RestingPrices(Book, BID)) + HalfTick
        /\ (RestingPrices(Book, BID) = {} /\ RestingPrices(Book, ASK) # {})
             => mid_price(Book) = Lowest(RestingPrices(Book, ASK)) - HalfTick

\* C20 case: a call returned on a book in which only bids rest, at two
\* prices.
C20_OnlyBidsRest ==
    /\ Returned
    /\ ncalls > 0
    /\ Cardinality(RestingPrices(Book, BID)) > 1
    /\ RestingPrices(Book, ASK) = {}

\* Orders rest on both sides of book S.
BothSides(S) == RestingPrices(S, BID) # {} /\ RestingPrices(S, ASK) # {}

\* The best prices among the orders that rest in book S.
BestBid(S) == Highest(RestingPrices(S, BID))
BestAsk(S) == Lowest(RestingPrices(S, ASK))

\* C21: after every operation, whenever both sides are populated, mid_price
\* is an odd multiple of half a tick and lies strictly between the best bid
\* and the best ask; with a spread of one tick it is (best_bid + best_ask)/2.
C21_MidBetweenBestPrices ==
    (Returned /\ BothSides(Book))
    => /\ mid_price(Book) # NoMid
       /\ mid_price(Book) % TickSize = HalfTick
       /\ BestBid(Book) < mid_price(Book)
       /\ mid_price(Book) < BestAsk(Book)
       /\ BestAsk(Book) - BestBid(Book) = TickSize
            => 2 * mid_price(Book) = BestBid(Book) + BestAsk(Book)

\* C21 case: a call returned on a book with both sides populated, two ticks
\* apart.
C21_TwoTickSpread ==
    /\ Returned
    /\ ncalls > 0
    /\ BothSides(Book)
    /\ BestAsk(Book) - BestBid(Book) = 2 * TickSize

\* The limit of the best queue of a side, as _update_mid reads it.
BestLimit(S, side) == S.qs[S.best_queue[side]].limit

\* Both sides have a best queue: the last branch of _update_mid.
BothBest(S) == S.best_queue[BID] # None /\ S.best_queue[ASK] # None

\* The midpoint of the best limits before the half-tick adjustment.
NaiveMid(S) == adjust_price(BestLimit(S, ASK) + BestLimit(S, BID))

Distance(a, b) == IF a < b THEN b - a ELSE a - b

\* The call returned with a best queue on both sides whose midpoint is a
\* price of the tick grid.
MidpointOnGrid ==
    /\ Returned
    /\ BothBest(Book)
    /\ is_divisible(NaiveMid(Book), TickSize)

\* C22 (as stated): when both sides are populated and the midpoint of the
\* best prices falls on the tick grid, mid_price lies half a tick from it on
\* the side away from prev_mid: it is farther from prev_mid than the midpoint.
C22_MidNudgedAwayFromPrevMid ==
    MidpointOnGrid
    => /\ prev_mid # NoMid
       /\ Distance(mid_price(Book), NaiveMid(Book)) = HalfTick
       /\ Distance(mid_price(Book), prev_mid)
            > Distance(NaiveMid(Book), prev_mid)

\* C22 (amended): when both sides are populated and the midpoint of the best
\* prices falls on the tick grid, mid_price lies half a tick from it on the
\* side of prev_mid: it is nearer to prev_mid than the midpoint.
C22_MidNudgedTowardsPrevMid ==
    MidpointOnGrid
    => /\ prev_mid # NoMid
       /\ Distance(mid_price(Book), NaiveMid(Book)) = HalfTick
       /\ Distance(mid_price(Book), prev_mid)
            < Distance(NaiveMid(Book), prev_mid)

\* The last call gave the book its second side, two ticks or more from the
\* first, with the midpoint on the grid and prev_mid more than a tick off.
C22_SecondSideOnGrid ==
    /\ MidpointOnGrid
    /\ ncalls > 0
    /\ ~BothBest(pre)
    /\ Distance(NaiveMid(Book), prev_mid) > TickSize

\* The last call was on_amend of an order that rested in the book.
AmendedResting == call.op = "on_amend" /\ RestsIn(pre, call.order_id)

\* The queue of the amended order, its side and its limit before the call.
AmendQueue == pre.orders[call.order_id].queue
AmendSide == pre.orders[call.order_id].side
AmendLimit == pre.qs[AmendQueue].limit

\* The test of the marketable path: side * price >= self.mid_price * side.
\* No statement before it changes the mid price.
AmendCrosses == AmendSide * call.price >= mid_price(pre) * AmendSide

\* on_amend of a resting order, on the path that is not the marketable one.
AmendRequeues ==
    /\ AmendedResting
    /\ mid_price(pre) # NoMid
    /\ ~AmendCrosses

\* The chain, nb_orders and volume of the queue `queues` held at price p in
\* book S once order o has left it; empty when no queue is held at p.
ChainLeft(S, p, o) ==
    IF HasKey(S, p) THEN Without(Chain(S, S.queues[p]), o) ELSE <<>>
CountLeft(S, p, o) ==
    IF ~HasKey(S, p) THEN 0
    ELSE IF S.orders[o].queue = S.queues[p] THEN S.qs[S.queues[p]].nb_orders - 1
    ELSE S.qs[S.queues[p]].nb_orders
VolumeLeft(S, p, o) ==
    IF ~HasKey(S, p) THEN 0
    ELSE IF S.orders[o].queue = S.queues[p]
    THEN S.qs[S.queues[p]].volume - S.orders[o].remaining
    ELSE S.qs[S.queues[p]].volume

\* C23: on_amend(order_id, q, p) that does not take the marketable path keeps
\* the same order id in order_map and re-queues the order: its old queue
\* loses it (nb_orders - 1, volume minus its previous remaining), it becomes
\* the tail of the queue at p, created if absent (nb_orders + 1, volume + q),
\* it has price p and quantity = remaining = q, and its owner is notified
\* "Amended"; also when p is the old price.
C23_AmendRequeuesSameOrder ==
    AmendRequeues
    => /\ err = "ok"
       /\ call.order_id \in order_map
       /\ orders[call.order_id].price = call.price
       /\ orders[call.order_id].quantity = call.quantity
       /\ orders[call.order_id].remaining = call.quantity
       /\ HasKey(Book, call.price)
       /\ orders[call.order_id].queue = queues[call.price]
       /\ qs[queues[call.price]].side = AmendSide
       /\ Chain(Book, queues[call.price])
            = ChainLeft(pre, call.price, call.order_id) \o <<call.order_id>>
       /\ qs[queues[call.price]].nb_orders
            = CountLeft(pre, call.price, call.order_id) + 1
       /\ qs[queues[call.price]].volume
            = VolumeLeft(pre, call.price, call.order_id) + call.quantity
       /\ (call.price # AmendLimit /\ pre.qs[AmendQueue].nb_orders > 1)
            => /\ HasKey(Book, AmendLimit)
               /\ queues[AmendLimit] = AmendQueue
               /\ Chain(Book, AmendQueue)
                    = Without(Chain(pre, AmendQueue), call.order_id)
               /\ qs[AmendQueue].nb_orders = pre.qs[AmendQueue].nb_orders - 1
               /\ qs[AmendQueue].volume
                    = pre.qs[AmendQueue].volume
                      - pre.orders[call.order_id].remaining
       /\ \E i \in 1..Len(events) :
            events[i] = Notification(pre.orders[call.order_id].owner, FALSE,
                                     "Amended", call.order_id)

\* C23 case: an order was moved from a queue it shared to the tail of a
\* queue that held another order.
C23_MovedBetweenSharedQueues ==
    /\ AmendRequeues
    /\ err = "ok"
    /\ call.price # AmendLimit
    /\ pre.qs[AmendQueue].nb_orders > 1
    /\ HasKey(pre, call.price)

\* on_amend of a resting order, on the marketable path.
AmendMarketable ==
    /\ AmendedResting
    /\ mid_price(pre) # NoMid
    /\ AmendCrosses

\* on_marketable(side, quantity, price, owner) of the amended order, made on
\* the book before the call.
FreshMarketable ==
    on_marketable(pre, AmendSide, call.quantity, call.price,
                  pre.orders[call.order_id].owner)

\* C24: on_amend(order_id, q, p) whose new price crosses the mid discards the
\* original order (afterwards it is in no queue and not in order_map),
\* deletes its old price level if the amend emptied it (the level is absent
\* from queues and from the ladder), and then behaves as a fresh
\* on_marketable(side, q, p, owner): the opposite side is consumed as that
\* call consumes it.
C24_CrossingAmendIsFreshMarketable ==
    AmendMarketable
    => /\ err = "ok"
       /\ call.order_id \notin order_map
       /\ \A q \in InBook(Book) : call.order_id \notin Range(Chain(Book, q))
       /\ pre.qs[AmendQueue].nb_orders = 1
            => /\ AmendQueue \notin Indexed(Book)
               /\ AmendQueue \notin Range(Ladder(Book, AmendSide))
       /\ SideView(Book, -AmendSide) = SideView(FreshMarketable, -AmendSide)

\* C24 case: the sole order of its price level was amended across the mid
\* and was filled against the opposite side.
C24_SoleOrderAmendedAcross ==
    /\ AmendMarketable
    /\ err = "ok"
    /\ pre.qs[AmendQueue].nb_orders = 1
    /\ Fills # {}

\* The private notifications of the last call.
Notifications == {i \in 1..Len(events) : events[i].kind = "notify"}

\* The client that submitted the last call: the client_id argument, or the
\* owner of the order on_cancel or on_amend names.
Submitter ==
    IF call.client_id # None THEN call.client_id
    ELSE IF call.order_id \in 1..Len(pre.orders)
    THEN pre.orders[call.order_id].owner
    ELSE None

\* C25: every private notification is addressed to a client id: the
\* client_id argument of a notification about an order (fill, add, cancel,
\* amend, "New Fill" of Queue.fill included) is the owner of that order, and
\* a rejection is addressed to the submitting client.
C25_NotificationsGoToOwners ==
    Returned =>
        \A i \in Notifications :
            /\ ~events[i].toOrder
            /\ events[i].to \in Clients
            /\ (events[i].oid # None /\ orders[events[i].oid] # DeadOrder)
                 => events[i].to = orders[events[i].oid].owner
            /\ events[i].status = "rejected" => events[i].to = Submitter

\* C25 case: Queue.fill reported a fill of a resting order.
C25_FillReported ==
    /\ Returned
    /\ \E i \in Notifications : events[i].status = "New Fill"

\* Orderbook.get_state: the (limit, volume) of the queues met from
\* best_queue[side] by qnext; the walk has no bound.  It assigns no field of
\* the book; the timestamp `ts` is left out.
LevelsOf(S, side) ==
    [i \in 1..Len(Ladder(S, side)) |->
        <<S.qs[Ladder(S, side)[i]].limit, S.qs[Ladder(S, side)[i]].volume>>]

get_state(S) == [b |-> LevelsOf(S, BID), a |-> LevelsOf(S, ASK)]

\* The walk of get_state ends: no queue is met twice.
GetStateReturns(S) == \A side \in Sides : Len(Ladder(S, side)) <= Len(S.qs)

\* The orders of `side` that rest at price p in book S, and the sum of
\* their remaining.
RestingAt(S, side, p) ==
    {o \in Resting(S) : S.orders[o].side = side /\ S.orders[o].price = p}

RECURSIVE SumRemaining(_, _)
SumRemaining(S, O) ==
    IF O = {} THEN 0
    ELSE LET o == CHOOSE x \in O : TRUE
         IN S.orders[o].remaining + SumRemaining(S, O \ {o})

\* The list `levels` reports exactly the live price levels of `side` in
\* book S, best first, with their volumes.
Snapshot(S, side, levels) ==
    /\ {levels[i][1] : i \in 1..Len(levels)} = RestingPrices(S, side)
    /\ \A i, j \in 1..Len(levels) :
         i < j => side * levels[i][1] > side * levels[j][1]
    /\ \A i \in 1..Len(levels) :
         /\ levels[i][2] > 0
         /\ levels[i][2]
              = SumRemaining(S, RestingAt(S, side, levels[i][1]))

\* C26: in any reachable book state get_state() returns exactly the live
\* price levels: one (price, volume) entry per bid level, strictly descending
\* from the best bid, one per ask level, strictly ascending from the best
\* ask, every volume above 0 and equal to the sum of remaining of the orders
\* resting at that price on that side.
C26_GetStateReportsLiveLevels ==
    Returned
    => /\ GetStateReturns(Book)
       /\ Snapshot(Book, BID, get_state(Book).b)
       /\ Snapshot(Book, ASK, get_state(Book).a)

\* C26 case: get_state reports two levels of bids and one of asks.
C26_ThreeLevelsReported ==
    /\ Returned
    /\ ncalls > 0
    /\ Len(get_state(Book).b) = 2
    /\ Len(get_state(Book).a) = 1

\* The last call was given a quantity that is_valid_quantity refuses or a
\* price that is_valid_price refuses.
InvalidCall ==
    \/ /\ call.op \in {"on_limit", "on_marketable", "on_market", "on_amend"}
       /\ ~is_valid_quantity(call.quantity)
    \/ /\ call.op \in {"on_limit", "on_marketable", "on_amend"}
       /\ ~is_valid_price(call.price)

\* C27: invalid input never changes the book: on_limit, on_marketable,
\* on_market and on_amend called with a price that fails is_valid_price or a
\* quantity that fails is_valid_quantity leave the book state unchanged.
C27_InvalidInputLeavesBook == InvalidCall => Book = pre

\* C27 case: on_limit was given the quantity 0 at a valid price.
C27_ZeroQuantityLimit ==
    /\ InvalidCall
    /\ call.op = "on_limit"
    /\ call.quantity = 0
    /\ is_valid_price(call.price)
    /\ err = "ok"

\* The last call was on_market or on_marketable, returned, and executed at
\* least one fill.
TakerFilled ==
    /\ call.op \in {"on_market", "on_marketable"}
    /\ Returned
    /\ Fills # {}

\* The statuses of the notifications that report an execution.
ExecutionStatuses == {"New Fill", "Partial fill", "Filled"}

\* C28: whenever an on_market or on_marketable call executes at least one
\* fill, the submitting client, the client_id passed to the call, receives
\* at least one private notification that reports the execution, also when
\* the order is filled completely and nothing rests.
C28_TakerToldOfExecution ==
    TakerFilled
    => \E i \in Notifications :
          /\ ~events[i].toOrder
          /\ events[i].to = call.client_id
          /\ events[i].status \in ExecutionStatuses

\* C28 case: the call filled an order of another client.
C28_FilledAnotherClient ==
    /\ TakerFilled
    /\ \E i \in Fills : pre.orders[events[i].oid].owner # call.client_id

\* The last call was on_marketable on a book whose opposite side it exhausts
\* before its quantity is filled: every queue of the opposite side is within
\* its price and they hold less than its quantity.
WalkExhausts ==
    /\ call.op = "on_marketable"
    /\ pre.best_queue[-call.side] # None
    /\ IndexedOf(pre, -call.side) # {}
    /\ Matchable(pre, call.side, call.price) = IndexedOf(pre, -call.side)
    /\ Crossable < call.quantity

\* The last call was on_marketable on a book with no best queue opposite.
NothingOpposite ==
    /\ call.op = "on_marketable"
    /\ pre.best_queue[-call.side] = None

Ended(S, o) ==
    /\ o \in 1..Len(S.orders)
    /\ S.orders[o] # DeadOrder
    /\ filled(S.orders[o])

\* C30: an order's life ends at its terminal event: once "Filled" has been
\* emitted for an order id, no later operation emits a notification for that
\* id, and a later on_cancel or on_amend with that id fails as unknown order
\* without changing anything.  (A cancelled id has left order_map: C12.)
C30_NothingAfterTerminalEvent ==
    /\ Returned
         => \A i \in Notifications :
               events[i].oid # None => ~Ended(pre, events[i].oid)
    /\ (call.op \in {"on_cancel", "on_amend"} /\ Ended(pre, call.order_id))
         => /\ err = "OrderbookException"
            /\ Book = pre
            /\ events = <<>>

\* C30 case: on_cancel named an order that had been filled completely.
C30_FilledOrderNamed ==
    /\ call.op = "on_cancel"
    /\ Ended(pre, call.order_id)
    /\ ncalls > 1

\* The last call was on_market and its liquidity pre-check rejected it:
\* quantity > best_volumes[side].
PreCheckRejects ==
    /\ call.op = "on_market"
    /\ call.quantity > pre.best_volumes[call.side]

\* C31: after every operation best_volumes[BID] >= 0 and
\* best_volumes[ASK] >= 0, and on_market(side, Q) is rejected by the
\* liquidity pre-check only when Q exceeds the total remaining quantity that
\* rests on that side.
C31_SideTotalsNeverNegative ==
    /\ Returned => \A s \in Sides : best_volumes[s] >= 0
    /\ PreCheckRejects => call.quantity > SideRemaining(pre, call.side)

\* C31 case: the pre-check rejected an on_market on a side that holds orders.
C31_RejectedOnPopulatedSide ==
    /\ PreCheckRejects
    /\ err = "ok"
    /\ Rejections # {}
    /\ SideRemaining(pre, call.side) > 0

\* The orders reached from the ohead of queue q by onext, to the null
\* onext; a walk that meets an order twice is cut after Len(orders) + 1.
FromHead(S, q) == ChainFrom(S, S.qs[q].ohead, None, Len(S.orders) + 1)

\* The chain of queue q of book S is a well-formed doubly linked list.
WellFormedChain(S, q) ==
    /\ S.qs[q].ohead # None => S.orders[S.qs[q].ohead].oprev = None
    /\ S.qs[q].otail # None => S.orders[S.qs[q].otail].onext = None
    /\ (S.qs[q].ohead = None) = (S.qs[q].otail = None)
    /\ \A i \in 1..Len(FromHead(S, q)) :
         LET x == FromHead(S, q)[i]
         IN /\ S.orders[x].queue = q
            /\ 0 < S.orders[x].remaining
            /\ S.orders[x].remaining <= S.orders[x].quantity
            /\ x # S.qs[q].otail
                 => /\ S.orders[x].onext # None
                    /\ S.orders[S.orders[x].onext].oprev = x
    /\ S.qs[q].nb_orders = Len(FromHead(S, q))

\* C32: after every operation, on_amend moving an order into a new or an
\* empty queue included, the chain of each queue is a well-formed doubly
\* linked list: ohead.oprev is null, otail.onext is null,
\* x.onext.oprev = x for every order x but the tail, every chained order has
\* queue pointing to that queue and 0 < remaining <= quantity, and nb_orders
\* is the number of orders reached from ohead by onext.
C32_ChainsAreWellFormed ==
    Returned => \A q \in InBook(Book) : WellFormedChain(Book, q)

\* C32 case: on_amend moved an order out of a queue of three into a queue
\* that did not exist.
C32_AmendedIntoNewQueue ==
    /\ AmendRequeues
    /\ err = "ok"
    /\ ~HasKey(pre, call.price)
    /\ pre.qs[AmendQueue].nb_orders = 3

\* The exceptions of a null dereference, of a comparison with a null
\* mid_price and of a missing key.
InternalErrors == {"AttributeError", "TypeError", "KeyError"}

\* C33: for tick-aligned prices and positive step-aligned quantities no call
\* of the five operations in a reachable book state fails with an internal
\* error (a null ohead, qprev, oprev or best_queue dereferenced, a key
\* missing in queues or order_map, a comparison with a null mid_price): the
\* only exception an operation raises is the unknown-order exception of
\* _get_order.
C33_NoInternalError ==
    /\ err \notin InternalErrors
    /\ err \in {"ok", "hang"} \/ (err = "OrderbookException"
                                   /\ call.op \in {"on_cancel", "on_amend"}
                                   /\ call.order_id \notin pre.order_map)

\* C33 case: an operation raised the unknown-order exception.
C33_UnknownOrderRaised ==
    /\ err = "OrderbookException"
    /\ call.op = "on_cancel"
    /\ pre.order_map # {}

\* The book after on_cancel of the order that the last call created.
CancelOfPlaced == Collect(on_cancel(Book, Len(orders)))

\* mid_price of book S follows from the limits of its best queues, as
\* _update_mid computes it, up to the side of the half tick when the midpoint
\* of the two limits is a price of the tick grid.
MidOfBest(S) ==
    IF S.best_queue[ASK] = None /\ S.best_queue[BID] = None
    THEN mid_price(S) = NoMid
    ELSE IF S.best_queue[ASK] = None
    THEN mid_price(S) = BestLimit(S, BID) + HalfTick
    ELSE IF S.best_queue[BID] = None
    THEN mid_price(S) = BestLimit(S, ASK) - HalfTick
    ELSE IF is_divisible(NaiveMid(S), TickSize)
    THEN Distance(mid_price(S), NaiveMid(S)) = HalfTick
    ELSE mid_price(S) = NaiveMid(S)

\* Book S has a best queue on both sides and their midpoint is on the grid.
OnGrid(S) == BothBest(S) /\ is_divisible(NaiveMid(S), TickSize)

LadderMatchesIndex(S) ==
    /\ \A s \in Sides : \A q \in Range(Ladder(S, s)) :
          /\ S.qs[q].side = s
          /\ HasKey(S, S.qs[q].limit)
          /\ S.queues[S.qs[q].limit] = q
    /\ \A q \in Indexed(S) : q \in Range(Ladder(S, S.qs[q].side))

AmendCannotMatch ==
    /\ AmendedResting
    /\ Matchable(pre, AmendSide, call.price) = {}

\* The orders that rest in book S as the amend asked: of the owner of the
\* amended order, on its side, at call.price, of quantity call.quantity.
RestingAsAmended(S) ==
    {o \in Resting(S) :
        /\ RestsIn(S, o)
        /\ S.orders[o].owner = pre.orders[call.order_id].owner
        /\ S.orders[o].side = AmendSide
        /\ S.orders[o].price = call.price
        /\ S.orders[o].quantity = call.quantity
        /\ S.orders[o].remaining = call.quantity}

\* C35: an amend that cannot match never loses the order: if on_amend(id, q, p)
\* is called when no opposite queue has side * limit <= side * p, then after
\* it returns no fill and no rejection has been emitted and the owner has an
\* order of quantity q resting at price p on the same side.
C35_UnmatchableAmendKeepsOrder ==
    (AmendCannotMatch /\ err = "ok")
    => /\ Fills = {}
       /\ Rejections = {}
       /\ RestingAsAmended(Book) # {}

\* C35 case: the only order of the book was amended to a better price of its
\* side and the call returned.
C35_LoneOrderAmendedUp ==
    /\ AmendCannotMatch
    /\ err = "ok"
    /\ pre.order_map = {call.order_id}
    /\ AmendSide * call.price > AmendSide * AmendLimit

\* The sum of the quantities of the fills F of the last call.
RECURSIVE FilledQuantity(_)
FilledQuantity(F) ==
    IF F = {} THEN 0
    ELSE LET i == CHOOSE x \in F : TRUE
         IN events[i].quantity + FilledQuantity(F \ {i})

\* The last call ran the walk of on_marketable: on_marketable itself, or
\* on_limit at a crossing price, with a best queue on the opposite side.
AcceptedMarketable ==
    /\ \/ call.op = "on_marketable"
       \/ call.op = "on_limit" /\ ~NonCrossing(pre, call.side, call.price)
    /\ pre.best_queue[-call.side] # None

\* The side that the last matching call consumes: on_market walks the side
\* it is given, on_marketable the opposite one.
ConsumedSide == IF call.op = "on_market" THEN call.side ELSE -call.side

\* The quantity of the leftover order that the last call placed, 0 if none.
Leftover ==
    IF Len(orders) > Len(pre.orders) /\ Len(orders) \in Resting(Book)
    THEN orders[Len(orders)].quantity
    ELSE 0

\* C36: quantity is conserved by matching: for every accepted on_market and
\* every on_marketable call with submitted quantity Q that returns, the sum of
\* the fill quantities plus the quantity of the leftover order placed (0 if
\* none) equals Q, and the total remaining quantity resting on the consumed
\* side decreases by exactly the sum of the fill quantities.
C36_MatchingConservesQuantity ==
    ((AcceptedMarket \/ AcceptedMarketable) /\ err = "ok")
    => /\ FilledQuantity(Fills) + Leftover = call.quantity
       /\ SideRemaining(Book, ConsumedSide)
            = SideRemaining(pre, ConsumedSide) - FilledQuantity(Fills)

\* C36 case: a marketable order for more than the opposite side held filled
\* what was there and left the rest as a new order.
C36_FilledAndLeftover ==
    /\ AcceptedMarketable
    /\ err = "ok"
    /\ Fills # {}
    /\ Leftover > 0
    /\ call.quantity > Leftover

\* What client c is still to be sent: the message of the send under way,
\* then the values linked from the waiter of its __aiter__.
Undelivered(c) ==
    (IF subscription[c].at = "send" THEN <<subscription[c].message>>
     ELSE <<>>)
        \o ValuesFrom(subscription[c].waiter, Len(futures))

\* The messages ms are in the order of the calls, and within one call in
\* the order of emission.
InEmissionOrder(ms) ==
    \A i, j \in 1..Len(ms) :
        i < j => \/ ms[i].call < ms[j].call
                 \/ ms[i].call = ms[j].call /\ ms[i].index < ms[j].index

\* Client c iterates its channel.
Iterating(c) == subscription[c].at # "none"

\* What client c was sent, followed by what it is still to be sent, is what
\* was published to it since it iterates.
NothingLostTo(c) ==
    Iterating(c)
    => /\ sent[c] \o Undelivered(c) = published[c]
       /\ InEmissionOrder(sent[c])

\* Client c has been sent all that was published to it.
AllSentTo(c) == err = "hang" \/ ~Iterating(c) \/ sent[c] = published[c]

\* C37: a subscriber that has started iterating a _PubSub channel receives
\* every value published afterwards exactly once and in publish order, no
\* matter how many publish calls happen between two resumptions; a client
\* subscribed to its private channel is sent the notifications of one
\* operation in emission order and before those of the next operation.
C37_SubscriberReceivesAllInOrder ==
    /\ [](\A c \in ServerClients : NothingLostTo(c))
    /\ \A c \in ServerClients : <>[]AllSentTo(c)

\* C37 case: a client that was sent a message awaits its waiter while two
\* or more values published since its last resumption are linked from it.
C37_SeveralPublishedSinceResumed ==
    \E c \in ServerClients :
        /\ subscription[c].at = "waiter"
        /\ Len(sent[c]) >= 1
        /\ Len(ValuesFrom(subscription[c].waiter, Len(futures))) >= 2

\* The book that the last call left, with what it emitted and how it ended.
Outcome == [Book EXCEPT !.events = events, !.err = err]

\* The last request came from `method` of VirtualExchange.
RequestOf(method) == call.op = method /\ ncalls > 0

\* C38: a trading request of order type MARKETABLE sent by
\* VirtualExchange.marketable_order is dispatched by the server to
\* Orderbook.on_marketable, and a LIMIT request to Orderbook.on_limit, so a
\* marketable order that arrives while the opposite side is empty is rejected
\* and not left resting in the book.
C38_MarketableDispatchedToOnMarketable ==
    /\ RequestOf("limit_order")
       => Outcome = Collect(on_limit(pre, call.side, call.quantity,
                                     call.price, call.client_id))
    /\ RequestOf("marketable_order")
       => /\ Outcome = Collect(on_marketable(pre, call.side, call.quantity,
                                             call.price, call.client_id))
          /\ pre.best_queue[-call.side] = None
             => /\ Rejections # {}
                /\ Resting(Book) = Resting(pre)

\* C38 case: marketable_order was sent while the opposite side held no
\* queue, the request was served, and the order it created rests.
C38_MarketableOnEmptySideRests ==
    /\ RequestOf("marketable_order")
    /\ pre.best_queue[-call.side] = None
    /\ err = "ok"
    /\ Len(orders) > Len(pre.orders)
    /\ Len(orders) \in Resting(Book)
====
